---- MODULE Spec2Model ----
(***************************************************************************)
(* Doc Matrix backend: the background-execution registry of the HTTP layer *)
(* (app/api.py) and the Executor's execution paths                          *)
(* (app/services/executor.py), as state machines.                           *)
(*                                                                         *)
(* Spec      the HTTP layer: request handler threads, execution_lock,      *)
(*           active_executions, worker threads.                            *)
(* FairSpec  Spec with weak fairness on the thread steps.                  *)
(* SpecExec  one Executor call (execute_all / execute_row /                *)
(*           execute_column / execute_cell) on one project, task by task.  *)
(***************************************************************************)
EXTENDS Integers, FiniteSets, Sequences, TLC

\* ---------------------------------------------------------------- bounds
NumProjects == 2
NumHandlers == 2
SlotsPerProject == 2
NumDocs == 3
MaxCols == 4
MaxRetries == 3
MaxDelay == 2
MaxUsage == 2
MaxOps == 3
MaxReorder == 3
MaxMtime == 3
MaxVersion == 2
MaxCalls == 4
NumChats == 2
MaxStored == 11
MaxText == 3
MaxQuote == 2
MaxPosition == 2
MaxMarkers == 2
MaxPageLen == 2
MaxPages == 4
MaxTasks == 3
RaceCols == 2

\* executor.py:74
BATCH_SIZE == 10

\* executor.py:926
CHAT_HISTORY_TURNS == 10

Projects == 1..NumProjects
Handlers == 1..NumHandlers
\* Worker threads are anonymous; a thread is named by the project it was
\* started for and a slot number.
Workers == Projects \X (1..SlotsPerProject)

Kinds == {"execute", "cell", "row", "column"}

VARIABLES
    \* ---- HTTP layer (api.py)
    active_executions,  \* set of project names with an execution in flight
    execution_lock,     \* holder of the mutex: Unlocked or <<"h", handler>>
    req,                \* handler thread -> [pc, name]
    worker,             \* worker thread -> [pc, outcome]
    files,              \* project -> content of config.json and results.json:
                        \* "created" as create_project wrote them, "written"
                        \* once a worker has rewritten them
    response,           \* the HTTP response sent last: [name, code]
    \* ---- one Executor call (executor.py)
    call,               \* the call: [op, mode, ncols, doc, col]
    fault,              \* what fails during the call: [kind, doc, col]
    pc,                 \* position of the call's coroutine
    i,                  \* loop index of that coroutine
    tasks,              \* cells whose _process_cell task is in flight
    progress,           \* ExecutionProgress
    results,            \* the project's results.json
    ret,                \* the map execute_row / execute_column builds
    error,              \* the exception the call ended with, "" if none
    \* ---- the row-wise path of one document (llm.py, executor.py)
    questions,          \* number of columns asked about
    reply,              \* the model's reply: [shape, answers]
    responses,          \* the map complete_row_wise returned
    saved,              \* column -> the Cell Result saved for it
    rw_pc,              \* position of the row-wise call
    rw_col,             \* the column the loop of execute_row is at
    \* ---- one call of LLMService.complete (llm.py)
    retry_count,        \* number of attempts allowed
    retry_delay,        \* base delay, in units of time
    attempt,            \* the loop variable
    posts,              \* number of POSTs issued
    history,            \* the outcomes of the POSTs, in order
    sleeps,             \* the waits of the asyncio.sleep calls, in order
    last_error,         \* the local variable last_error
    llm_pc,             \* position of the call
    llm_error,          \* the exception the call raised
    \* ---- config.json of one project and the threads that rewrite it
    config_json,        \* the persisted totals, execution_mode and columns
    thread,             \* thread -> [pc, op, site, local, usage]
    billed,             \* usage reported by the successful LLM calls so far
    ops,                \* number of operations started
    \* ---- one column operation of ProjectManager (project.py)
    columns,            \* config.columns: the column ids, in order
    cell_keys,          \* the keys of results.cells
    column_summaries,   \* the keys of results.column_summaries
    row_summaries,      \* the keys of results.row_summaries
    overall_summary,    \* whether results.overall_summary is set
    pm_call,            \* the call: [op, column_id, column_ids]
    pm_pc,              \* position of the call
    pm_ret,             \* what reorder_columns returned
    \* ---- one document and its text-cache entry (documents.py)
    doc_name,           \* the filename the calls are about
    doc_file,           \* the document on disk: [exists, mtime, content]
    cache_file,         \* the cache file: [state, body]
    dp_call,            \* the latest call and the state it started in
    dp_pc,              \* position of the call
    dp_ret,             \* the latest outcome: [n, kind, record]
    extractions,        \* number of extractor runs that returned
    \* ---- chat requests of one project (executor.py chat_query)
    chat_json,          \* the messages in chat.json
    chat,               \* thread -> [pc, message, stored, messages, data, parsed]
    sent,               \* thread -> the turns given to the LLM
    wrote,              \* thread -> roles of the messages it wrote, in order
    \* ---- one response given to the CitationParser (citations.py)
    source_text,        \* the text of the source document
    source_ok,          \* whether get_document_text can read the document
    markers,            \* the citation markers of the response, in order
    parsed_citations,   \* the citations of the ParsedResponse
    cp_pc,              \* which parser ran, or "raised"
    \* ---- one run of an extractor (documents.py)
    ex_format,          \* the extension of the file
    ex_units,           \* the texts of its pages or sheets
    ex_record,          \* the extraction result: [text, pages]
    ex_pc,              \* "idle" or "extracted"
    \* ---- the _process_cell tasks of one batch (executor.py)
    results_json,       \* results.json: cell key -> Cell Result
    cell_task,          \* cell -> [pc, extraction, llm, accrued, result]
    save_count,         \* cell -> number of save_cell_result calls made for it
    \* ---- the project folders (storage.py)
    folders,            \* project -> [exists, files]
    made,               \* project -> create_project made it, no delete since
    executing,          \* projects with a running background execution
    folder_response,    \* the latest answer: [op, name, code]
    \* ---- delete_column beside a running execution (project.py, executor.py)
    race_columns,       \* config.json: the column ids, in order
    race_results,       \* results.json: [cells, column_summaries]
    execution,          \* the worker thread: [pc, columns, pending, queue, item, local]
    deletion            \* the handler thread: [pc, column_id, local]

apiVars == <<active_executions, execution_lock, req, worker, files, response>>

execVars == <<call, fault, pc, i, tasks, progress, results, ret, error>>

rowVars == <<questions, reply, responses, saved, rw_pc, rw_col>>

llmVars == <<retry_count, retry_delay, attempt, posts, history, sleeps,
             last_error, llm_pc, llm_error>>

cfgVars == <<config_json, thread, billed, ops>>

colVars == <<columns, cell_keys, column_summaries, row_summaries, overall_summary, pm_call, pm_pc, pm_ret>>

docVars == <<doc_name, doc_file, cache_file, dp_call, dp_pc, dp_ret, extractions>>

chatVars == <<chat_json, chat, sent, wrote>>

citeVars == <<source_text, source_ok, markers, parsed_citations, cp_pc>>

extractVars == <<ex_format, ex_units, ex_record, ex_pc>>

cellVars == <<results_json, cell_task, save_count>>

folderVars == <<folders, made, executing, folder_response>>

raceVars == <<race_columns, race_results, execution, deletion>>

vars == <<active_executions, execution_lock, req, worker, files, response,
          call, fault, pc, i, tasks, progress, results, ret, error,
          questions, reply, responses, saved, rw_pc, rw_col,
          retry_count, retry_delay, attempt, posts, history, sleeps,
          last_error, llm_pc, llm_error,
          config_json, thread, billed, ops,
          columns, cell_keys, column_summaries, row_summaries,
          overall_summary, pm_call, pm_pc, pm_ret,
          doc_name, doc_file, cache_file, dp_call, dp_pc, dp_ret,
          extractions,
          chat_json, chat, sent, wrote,
          source_text, source_ok, markers, parsed_citations, cp_pc,
          ex_format, ex_units, ex_record, ex_pc,
          results_json, cell_task, save_count,
          folders, made, executing, folder_response,
          race_columns, race_results, execution, deletion>>

\* What the steps of one layer leave alone.
notApiVars == <<execVars, rowVars, llmVars, cfgVars, colVars, docVars, chatVars, citeVars, extractVars, cellVars, folderVars, raceVars>>
notExecVars == <<apiVars, rowVars, llmVars, cfgVars, colVars, docVars, chatVars, citeVars, extractVars, cellVars, folderVars, raceVars>>
notRowVars == <<apiVars, execVars, llmVars, cfgVars, colVars, docVars, chatVars, citeVars, extractVars, cellVars, folderVars, raceVars>>
notLLMVars == <<apiVars, execVars, rowVars, cfgVars, colVars, docVars, chatVars, citeVars, extractVars, cellVars, folderVars, raceVars>>
notCfgVars == <<apiVars, execVars, rowVars, llmVars, colVars, docVars, chatVars, citeVars, extractVars, cellVars, folderVars, raceVars>>
notColVars == <<apiVars, execVars, rowVars, llmVars, cfgVars, docVars, chatVars, citeVars, extractVars, cellVars, folderVars, raceVars>>
notDocVars == <<apiVars, execVars, rowVars, llmVars, cfgVars, colVars, chatVars, citeVars, extractVars, cellVars, folderVars, raceVars>>
notChatVars == <<apiVars, execVars, rowVars, llmVars, cfgVars, colVars, docVars, citeVars, extractVars, cellVars, folderVars, raceVars>>
notCiteVars == <<apiVars, execVars, rowVars, llmVars, cfgVars, chatVars, colVars, docVars, extractVars, cellVars, folderVars, raceVars>>
notExtractVars == <<apiVars, execVars, rowVars, llmVars, cfgVars, chatVars, citeVars, colVars, docVars, cellVars, folderVars, raceVars>>
notCellVars == <<apiVars, execVars, rowVars, llmVars, cfgVars, chatVars, citeVars, colVars, docVars, extractVars, folderVars, raceVars>>
notFolderVars == <<apiVars, execVars, rowVars, llmVars, cellVars, cfgVars, chatVars, citeVars, colVars, docVars, extractVars, raceVars>>
notRaceVars == <<apiVars, execVars, rowVars, llmVars, cellVars, cfgVars, chatVars, citeVars, colVars, docVars, extractVars, folderVars>>

IdleReq == [pc |-> "idle", name |-> 0]
NoWorker == [pc |-> "none", outcome |-> "none"]
NoResponse == [name |-> 0, code |-> "none"]
Unlocked == <<"free", 0>>

\* ------------------------------------------------------------ api.py
\* api.py:34-35 and the state of a freshly started server.
ApiInit ==
    /\ active_executions = {}
    /\ execution_lock = Unlocked
    /\ req = [h \in Handlers |-> IdleReq]
    /\ worker = [w \in Workers |-> NoWorker]
    /\ files = [p \in Projects |-> [config |-> "created", results |-> "created"]]
    /\ response = NoResponse

\* Variants of the membership test a slip in api.py:470 would give.
NameIsActive_Never(active, name) == FALSE

NameIsActive_AnyActive(active, name) == active # {}

\* api.py:470  `if name in active_executions`
NameIsActive(active, name) == name \in active

\* api.py:472  `active_executions.add(name)`
AddName(active, name) == active \cup {name}

\* The test-and-insert without mutual exclusion.
LockFree_NoMutex(lock) == TRUE

\* api.py:469  `with execution_lock:` can be entered only when nobody holds it
LockFree(lock) == lock = Unlocked

\* The removal placed after run_async inside the try body instead of in finally.
RemoveName_OnlyOnReturn(active, name, outcome) ==
    IF outcome = "returned" /\ name \in active THEN active \ {name} ELSE active

\* api.py:480-483  the worker's finally block: runs for every outcome.
RemoveName(active, name, outcome) ==
    IF name \in active THEN active \ {name} ELSE active

\* api.py:497-505, 516-555: a POST on one of the four execute routes.  The
\* handler builds the services and the coroutine object (nothing of it runs
\* yet).  execute/cell answers 400 when filename or column_id is missing.
\* The handler then enters `with execution_lock:` (api.py:469).
ReqArrive(h, kind, name, fieldsOk) ==
    /\ req[h].pc = "idle"
    /\ IF kind = "cell" /\ ~fieldsOk
       THEN /\ response' = [name |-> name, code |-> "400"]
            /\ UNCHANGED <<req, execution_lock>>
       ELSE /\ LockFree(execution_lock)
            /\ execution_lock' = <<"h", h>>
            /\ req' = [req EXCEPT ![h] = [pc |-> "test", name |-> name]]
            /\ UNCHANGED response
    /\ UNCHANGED <<active_executions, worker, files>>
    /\ UNCHANGED notApiVars

\* api.py:470-471  the membership test; 409 leaves the with-block (releases)
ReqTest(h) ==
    /\ req[h].pc = "test"
    /\ IF NameIsActive(active_executions, req[h].name)
       THEN /\ response' = [name |-> req[h].name, code |-> "409"]
            /\ req' = [req EXCEPT ![h] = IdleReq]
            /\ execution_lock' = Unlocked
       ELSE /\ req' = [req EXCEPT ![h].pc = "insert"]
            /\ UNCHANGED <<response, execution_lock>>
    /\ UNCHANGED <<active_executions, worker, files>>
    /\ UNCHANGED notApiVars

\* api.py:472  add, then leave the with-block
ReqInsert(h) ==
    /\ req[h].pc = "insert"
    /\ active_executions' = AddName(active_executions, req[h].name)
    /\ execution_lock' = Unlocked
    /\ req' = [req EXCEPT ![h].pc = "spawn"]
    /\ UNCHANGED <<worker, files, response>>
    /\ UNCHANGED notApiVars

FreeSlots(p) == {k \in 1..SlotsPerProject : worker[<<p, k>>].pc = "none"}

\* api.py:486-495  thread.start() and the 200 "started" response
ReqSpawn(h) ==
    /\ req[h].pc = "spawn"
    /\ FreeSlots(req[h].name) # {}
    /\ LET free == FreeSlots(req[h].name)
           k == CHOOSE x \in free : \A y \in free : x <= y
       IN worker' = [worker EXCEPT ![<<req[h].name, k>>] =
                        [pc |-> "run", outcome |-> "none"]]
    /\ response' = [name |-> req[h].name, code |-> "200"]
    /\ req' = [req EXCEPT ![h] = IdleReq]
    /\ UNCHANGED <<active_executions, execution_lock, files>>
    /\ UNCHANGED notApiVars

\* api.py:507-514  GET /status: one read of the set under the lock
ReqStatus(h, name) ==
    /\ req[h].pc = "idle"
    /\ LockFree(execution_lock)
    /\ response' = [name |-> name,
                    code |-> IF NameIsActive(active_executions, name)
                             THEN "running" ELSE "not_running"]
    /\ UNCHANGED <<active_executions, execution_lock, req, worker, files>>
    /\ UNCHANGED notApiVars

\* api.py:476 run_async(coro), first step of the coroutine
\* (executor.py:127-129, 400-402, 414-415, 437-439, 539-541, 556-557):
\* the project or the column may be missing, which raises ValueError.
CoroBegin(w, found) ==
    /\ worker[w].pc = "run"
    /\ worker' = [worker EXCEPT ![w] =
                    IF found THEN [@ EXCEPT !.pc = "work"]
                    ELSE [@ EXCEPT !.pc = "finally", !.outcome = "raised"]]
    /\ UNCHANGED <<active_executions, execution_lock, req, files, response>>
    /\ UNCHANGED notApiVars

\* executor.py:343-377  a cell of the coroutine completes: token accrual
\* rewrites config.json, save_cell_result rewrites results.json.
CoroPersist(w) ==
    /\ worker[w].pc = "work"
    /\ files' = [files EXCEPT ![w[1]] =
                    [config |-> "written", results |-> "written"]]
    /\ UNCHANGED <<active_executions, execution_lock, req, worker, response>>
    /\ UNCHANGED notApiVars

\* api.py:476-479  the coroutine returns or raises
CoroEnd(w, outcome) ==
    /\ worker[w].pc = "work"
    /\ worker' = [worker EXCEPT ![w] = [@ EXCEPT !.pc = "finally", !.outcome = outcome]]
    /\ UNCHANGED <<active_executions, execution_lock, req, files, response>>
    /\ UNCHANGED notApiVars

\* api.py:480-483  finally: the with-block of execution_lock as one step
\* (enter when the lock is free, remove the name, leave); the thread exits.
WorkerFinally(w) ==
    /\ worker[w].pc = "finally"
    /\ LockFree(execution_lock)
    /\ active_executions' =
          RemoveName(active_executions, w[1], worker[w].outcome)
    /\ worker' = [worker EXCEPT ![w] = NoWorker]
    /\ UNCHANGED <<execution_lock, req, files, response>>
    /\ UNCHANGED notApiVars

\* ------------------------------------------------------- executor.py
\* One Executor call on one project whose folder holds the documents Docs
\* and whose config holds the columns 1..call.ncols.  The call runs on its
\* own event loop: a step is the code between two awaits.

Docs == 1..NumDocs
AllCols == 1..MaxCols
Cols == 1..call.ncols
Cells == Docs \X AllCols

Ops == {"all", "row", "column", "cell"}
Modes == {"parallel", "row_wise"}
CellFaults == {"llm", "parse", "save"}
DocFaults == {"extract", "nojson"}

\* What fails during the call.  kind "extract": get_document_text raises for
\* the document; "llm": the LLM call made for the cell (row-wise: for the
\* document) fails; "parse": parse_response raises on the cell's answer;
\* "save": save_cell_result raises for the cell; "nojson": the row-wise reply
\* holds no JSON object; "summary": every generate_summary call fails.
Faults ==
    {[kind |-> "none", doc |-> 0, col |-> 0],
     [kind |-> "summary", doc |-> 0, col |-> 0]}
    \cup {[kind |-> k, doc |-> d, col |-> 0] : k \in DocFaults, d \in Docs}
    \cup {[kind |-> k, doc |-> d, col |-> c] :
             k \in CellFaults, d \in Docs, c \in AllCols}

ExtractFails(d) == fault.kind = "extract" /\ fault.doc = d
LLMFails(d, c) == fault.kind = "llm" /\ fault.doc = d /\ fault.col = c
RowLLMFails(d) == fault.kind = "llm" /\ fault.doc = d
ParseFails(d, c) == fault.kind = "parse" /\ fault.doc = d /\ fault.col = c
SaveFails(d, c) == fault.kind = "save" /\ fault.doc = d /\ fault.col = c
NoJson(d) == fault.kind = "nojson" /\ fault.doc = d
SummaryFails == fault.kind = "summary"

NoResults ==
    [cells |-> [x \in Cells |-> "none"],
     row_summaries |-> [d \in Docs |-> "none"],
     column_summaries |-> [c \in AllCols |-> "none"],
     overall_summary |-> "none"]

\* executor.py:37-40  ExecutionProgress defaults
NoProgress ==
    [total_cells |-> 0, completed_cells |-> 0,
     current_phase |-> "initializing", errors |-> 0]

NoRet == [k \in {} |-> "none"]

\* No Executor call is being modelled (the HTTP-layer specifications).
ExecIdle ==
    /\ call = [op |-> "none", mode |-> "parallel", ncols |-> 0, doc |-> 0, col |-> 0]
    /\ fault = [kind |-> "none", doc |-> 0, col |-> 0]
    /\ pc = "idle"
    /\ i = 0
    /\ tasks = {}
    /\ progress = NoProgress
    /\ results = NoResults
    /\ ret = NoRet
    /\ error = ""

\* No row-wise call is being modelled.
RowIdle ==
    /\ questions = 0
    /\ reply = [shape |-> "no_object", answers |-> <<>>]
    /\ responses = <<>>
    /\ saved = <<>>
    /\ rw_pc = "idle"
    /\ rw_col = 0

\* llm.py:268  last_error = None
NoError == [kind |-> "None", status |-> 0, attempt |-> 0]

\* The call has raised nothing; an exception is [kind, wraps], where wraps is
\* the error it carries (itself, for a re-raised httpx error).
NotRaised == [kind |-> "None", wraps |-> NoError]

\* No call of complete() is being modelled.
LLMIdle ==
    /\ retry_count = 0
    /\ retry_delay = 1
    /\ attempt = 0
    /\ posts = 0
    /\ history = <<>>
    /\ sleeps = <<>>
    /\ last_error = NoError
    /\ llm_pc = "idle"
    /\ llm_error = NotRaised

\* project.py:232-258  config.json as create_project writes it
NewConfig ==
    [total_input_tokens |-> 0, total_output_tokens |-> 0,
     execution_mode |-> "parallel", columns |-> 0]

NoUsage == [prompt_tokens |-> 0, completion_tokens |-> 0]

IdleThread ==
    [pc |-> "idle", op |-> "none", site |-> "none", local |-> NewConfig,
     usage |-> NoUsage]

\* No thread is working on the project's config.json.
CfgIdle ==
    /\ config_json = NewConfig
    /\ thread = [t \in {"worker", "handler"} |-> IdleThread]
    /\ billed = NoUsage
    /\ ops = 0

NoPMCall == [op |-> "none", column_id |-> <<>>, column_ids |-> <<>>]

\* No column operation is being modelled.
ColIdle ==
    /\ columns = <<>>
    /\ cell_keys = {}
    /\ column_summaries = {}
    /\ row_summaries = {}
    /\ overall_summary = FALSE
    /\ pm_call = NoPMCall
    /\ pm_pc = "idle"
    /\ pm_ret = <<>>

\* No file: what the code sees when doc_path.exists() is false.
NoFile == [exists |-> FALSE, mtime |-> 0, content |-> 0]

\* Python's None where an Extraction Record is expected.
NoRecord == [text |-> 0, mtime |-> 0, filename |-> "None"]

NoCache == [state |-> "absent", body |-> <<>>]

NoDocCall ==
    [n |-> 0, filename |-> "None", force_refresh |-> FALSE,
     file |-> NoFile, cache |-> NoCache, current_mtime |-> 0]

NoDocRet == [n |-> 0, kind |-> "None", record |-> NoRecord]

\* No get_document_text call is being modelled.
DocIdle ==
    /\ doc_name = "None"
    /\ doc_file = NoFile
    /\ cache_file = NoCache
    /\ dp_call = NoDocCall
    /\ dp_pc = "idle"
    /\ dp_ret = NoDocRet
    /\ extractions = 0

\* A request thread that is not in chat_query.
IdleChat ==
    [pc |-> "idle", message |-> 0, stored |-> <<>>, messages |-> <<>>,
     data |-> <<>>, parsed |-> 0]

\* No chat request is being modelled.
ChatIdle ==
    /\ chat_json = <<>>
    /\ chat = <<>>
    /\ sent = <<>>
    /\ wrote = <<>>

\* No response is being parsed.
CiteIdle ==
    /\ source_text = <<>>
    /\ source_ok = TRUE
    /\ markers = <<>>
    /\ parsed_citations = <<>>
    /\ cp_pc = "idle"

NoExtraction == [text |-> <<>>, pages |-> <<>>]

\* No extractor is being modelled.
ExtractIdle ==
    /\ ex_format = "None"
    /\ ex_units = <<>>
    /\ ex_record = NoExtraction
    /\ ex_pc = "idle"

\* No _process_cell task is being modelled.
CellIdle ==
    /\ results_json = <<>>
    /\ cell_task = <<>>
    /\ save_count = <<>>

NoFolder == [exists |-> FALSE, files |-> {}]

NoFolderResponse == [op |-> "none", name |-> 0, code |-> "none"]

\* No folder operation is being modelled.
FolderIdle ==
    /\ folders = <<>>
    /\ made = <<>>
    /\ executing = {}
    /\ folder_response = NoFolderResponse

EmptyResults == [cells |-> {}, column_summaries |-> {}]

NoItem == [kind |-> "none", key |-> <<>>]

IdleExecution ==
    [pc |-> "idle", columns |-> <<>>, pending |-> {}, queue |-> <<>>,
     item |-> NoItem, local |-> EmptyResults]

IdleDeletion == [pc |-> "idle", column_id |-> <<>>, local |-> EmptyResults]

\* No delete_column request is being followed beside an execution.
RaceIdle ==
    /\ race_columns = <<>>
    /\ race_results = EmptyResults
    /\ execution = IdleExecution
    /\ deletion = IdleDeletion

\* The arguments of the four entry points (executor.py:111, 381, 419, 521).
\* execute_row and execute_cell name a document, execute_column and
\* execute_cell a column id, which need not exist in the config.
Calls ==
    {[op |-> "all", mode |-> m, ncols |-> n, doc |-> 0, col |-> 0] :
        m \in Modes, n \in 0..MaxCols}
    \cup {[op |-> "row", mode |-> m, ncols |-> n, doc |-> d, col |-> 0] :
        m \in Modes, n \in 0..MaxCols, d \in Docs}
    \cup {[op |-> "column", mode |-> "parallel", ncols |-> n, doc |-> 0, col |-> c] :
        n \in 0..MaxCols, c \in AllCols}
    \cup {[op |-> "cell", mode |-> "parallel", ncols |-> n, doc |-> d, col |-> c] :
        n \in 0..MaxCols, d \in Docs, c \in AllCols}

\* A project as create_project and add_column leave it (project.py:232-258,
\* 349-376): no results yet.  A fault names a column of the config.
InitExec ==
    /\ ApiInit
    /\ RowIdle
    /\ LLMIdle
    /\ CfgIdle
    /\ ColIdle
    /\ DocIdle
    /\ ChatIdle
    /\ CiteIdle
    /\ ExtractIdle
    /\ CellIdle
    /\ FolderIdle
    /\ RaceIdle
    /\ call \in Calls
    /\ fault \in {f \in Faults : f.col <= call.ncols}
    /\ pc = "start"
    /\ i = 0
    /\ tasks = {}
    /\ progress = NoProgress
    /\ results = NoResults
    /\ ret = NoRet
    /\ error = ""

Min(a, b) == IF a < b THEN a ELSE b

\* executor.py:178-182  cells_to_process, document-major
NumCells == NumDocs * call.ncols
CellsToProcess ==
    [k \in 1..NumCells |->
        <<((k - 1) \div call.ncols) + 1, ((k - 1) % call.ncols) + 1>>]

\* A slice that takes one cell more than the batch size.
BatchSlice_OneMore(cells, from, size) ==
    {cells[k] : k \in (from + 1)..Min(from + size + 1, Len(cells))}

\* executor.py:186  cells_to_process[i:i + BATCH_SIZE]
BatchSlice(cells, from, size) ==
    {cells[k] : k \in (from + 1)..Min(from + size, Len(cells))}

\* executor.py:330-372  the status _process_cell computes for a cell
CellStatus(d, c) ==
    IF ExtractFails(d) \/ LLMFails(d, c) \/ ParseFails(d, c)
    THEN "error" ELSE "completed"

\* executor.py:374-379  save_cell_result is outside the try: a failing save
\* makes the task raise, otherwise the task returns the saved result.
TaskOutcome(d, c) == IF SaveFails(d, c) THEN "raised" ELSE CellStatus(d, c)

\* project.py:475-492  save_cell_result
SaveCell(res, cell, status) == [res EXCEPT !.cells[cell] = status]

\* asyncio.as_completed over the tasks (executor.py:203, 501): it yields one
\* new awaitable per task, each resolving to the next task that finishes;
\* none of them is one of the tasks passed in.
AsCompleted(ts) == {<<"_wait_for_one", k, 0>> : k \in 1..Cardinality(ts)}

\* executor.py:493-498  the keys of the dict execute_row builds
TaskKeys(cells) == {<<"Task", x[1], x[2]>> : x \in cells}

\* executor.py:127-150, 400-417, 437-448, 539-565  the call up to its first
\* loop: the column of execute_cell / execute_column must be in the config.
ExecStart ==
    /\ pc = "start"
    /\ IF call.op \in {"column", "cell"} /\ call.col \notin Cols
       THEN /\ pc' = "raised"
            /\ error' = "ValueError"
            /\ UNCHANGED <<i, tasks, progress>>
       ELSE /\ error' = error
            /\ CASE call.op = "all" ->
                      /\ progress' = [total_cells |-> NumCells,
                                      completed_cells |-> 0,
                                      current_phase |->
                                         IF call.mode = "row_wise"
                                         THEN "processing_rows"
                                         ELSE "processing_cells",
                                      errors |-> 0]
                      /\ pc' = IF call.mode = "row_wise" THEN "rows" ELSE "batch"
                      /\ i' = IF call.mode = "row_wise" THEN 1 ELSE 0
                      /\ tasks' = tasks
                 [] call.op = "row" ->
                      /\ pc' = IF call.mode = "row_wise" THEN "row_rw" ELSE "row_par"
                      /\ UNCHANGED <<i, tasks, progress>>
                 [] call.op = "column" ->
                      /\ tasks' = {<<d, call.col>> : d \in Docs}
                      /\ pc' = "gather"
                      /\ UNCHANGED <<i, progress>>
                 [] call.op = "cell" ->
                      /\ tasks' = {<<call.doc, call.col>>}
                      /\ pc' = "await_cell"
                      /\ UNCHANGED <<i, progress>>
    /\ UNCHANGED <<call, fault, results, ret>>
    /\ UNCHANGED notExecVars

\* executor.py:185-200  the head of the batch loop: the next batch's tasks
\* are created, or the loop ends and summary generation begins (218-220).
BatchStart ==
    /\ pc = "batch"
    /\ IF i < Len(CellsToProcess)
       THEN /\ tasks' = BatchSlice(CellsToProcess, i, BATCH_SIZE)
            /\ pc' = "consume"
            /\ i' = i
       ELSE /\ tasks' = tasks
            /\ pc' = "summ_rows"
            /\ i' = 1
    /\ UNCHANGED <<call, fault, progress, results, ret, error>>
    /\ UNCHANGED notExecVars

\* executor.py:46-57  the progress_pct of to_dict:
\* int(completed_cells / total_cells * 100), or 0 when total_cells is 0.
\* For the counts that occur here the float product truncates to the
\* integer quotient.
ProgressPct(prog) ==
    IF prog.total_cells > 0
    THEN (prog.completed_cells * 100) \div prog.total_cells
    ELSE 0

\* executor.py:203-211  one iteration of the as_completed loop of
\* _execute_parallel: success and failure both count the cell.
CountTask(prog, outcome) ==
    [prog EXCEPT !.completed_cells = @ + 1,
                 !.errors = IF outcome = "raised" THEN @ + 1 ELSE @]

\* A _process_cell task finishes (executor.py:312-379): its last segment
\* saves the result or raises.  The step of the awaiting coroutine that
\* receives it is taken with it, as it touches only that coroutine's locals:
\*   _execute_parallel (203-216) counts it and, after the last task of the
\*      batch, moves to the next batch;
\*   execute_row (504-514) stores the result under the task's column;
\*   execute_column (566) and execute_cell (417) wait for all tasks.
TaskFinish(cell) ==
    /\ pc \in {"consume", "row_consume", "gather", "await_cell"}
    /\ cell \in tasks
    /\ LET outcome == TaskOutcome(cell[1], cell[2])
       IN /\ results' = IF outcome = "raised" THEN results
                        ELSE SaveCell(results, cell, outcome)
          /\ tasks' = tasks \ {cell}
          /\ progress' = IF pc = "consume" THEN CountTask(progress, outcome)
                         ELSE progress
          /\ ret' = IF pc = "row_consume"
                    THEN (cell[2] :> (IF outcome = "raised" THEN "error" ELSE outcome))
                         @@ ret
                    ELSE ret
          /\ pc' = IF tasks \ {cell} # {} THEN pc
                   ELSE CASE pc = "consume" -> "batch"
                          [] pc = "row_consume" -> "row_summary"
                          [] OTHER -> pc
          /\ i' = IF pc = "consume" /\ tasks \ {cell} = {} THEN i + BATCH_SIZE ELSE i
    /\ UNCHANGED <<call, fault, error>>
    /\ UNCHANGED notExecVars

\* The per-column loop of the row-wise paths (executor.py:269-296, 465-490)
\* from column c on; st = [cells, done, raised].  A reply without JSON gives
\* no entry for the column and an error result "[No response]"; parse and
\* save failures leave the loop by raising.
RECURSIVE RowWiseColumns(_, _, _)
RowWiseColumns(d, c, st) ==
    IF c > call.ncols THEN st
    ELSE IF (~NoJson(d) /\ ParseFails(d, c)) \/ SaveFails(d, c)
         THEN [st EXCEPT !.raised = TRUE]
         ELSE RowWiseColumns(d, c + 1,
                 [st EXCEPT !.cells[<<d, c>>] =
                                IF NoJson(d) THEN "error" ELSE "completed",
                            !.done = @ + 1])

\* executor.py:250-296, 450-490  the row-wise work for one document: text
\* extraction, one complete_row_wise call, then the loop over the columns.
RowWiseDocument(d, cells) ==
    IF ExtractFails(d) \/ RowLLMFails(d)
    THEN [cells |-> cells, done |-> 0, raised |-> TRUE]
    ELSE RowWiseColumns(d, 1, [cells |-> cells, done |-> 0, raised |-> FALSE])

\* executor.py:298-300  the except clause of the document loop
RowFailureCount(completed, done, ncols) == completed + done + ncols

\* executor.py:246-302  one document of _execute_row_wise
RowWiseDoc ==
    /\ pc = "rows"
    /\ i <= NumDocs
    /\ LET st == RowWiseDocument(i, results.cells)
       IN /\ results' = [results EXCEPT !.cells = st.cells]
          /\ progress' =
               IF st.raised
               THEN [progress EXCEPT
                       !.errors = @ + 1,
                       !.completed_cells =
                           RowFailureCount(progress.completed_cells, st.done, call.ncols)]
               ELSE [progress EXCEPT !.completed_cells = @ + st.done]
    /\ IF i = NumDocs
       THEN pc' = "summ_rows" /\ i' = 1
       ELSE pc' = pc /\ i' = i + 1
    /\ UNCHANGED <<call, fault, tasks, ret, error>>
    /\ UNCHANGED notExecVars

\* executor.py:448-490  execute_row, row-wise branch: no try around it
ExecuteRowRowWise ==
    /\ pc = "row_rw"
    /\ LET st == RowWiseDocument(call.doc, results.cells)
       IN /\ results' = [results EXCEPT !.cells = st.cells]
          /\ ret' = [c \in 1..st.done |-> st.cells[<<call.doc, c>>]]
          /\ IF st.raised
             THEN pc' = "raised" /\ error' = "Exception"
             ELSE pc' = "row_summary" /\ error' = error
    /\ UNCHANGED <<call, fault, i, tasks, progress>>
    /\ UNCHANGED notExecVars

\* executor.py:491-502  execute_row, parallel branch, up to the first
\* iteration of the loop: the tasks are created, as_completed is iterated and
\* the awaitable it yields is looked up in the dict of tasks.  When it is not
\* a key the call ends with KeyError; the tasks already scheduled still run
\* their first segment, so a task whose extraction fails saves its error
\* result, and the others stay pending for ever.
ExecuteRowParallel ==
    /\ pc = "row_par"
    /\ LET created == {<<call.doc, c>> : c \in Cols}
           yielded == AsCompleted(created)
       IN IF created = {}
          THEN /\ pc' = "row_summary"
               /\ UNCHANGED <<tasks, results, error>>
          ELSE IF \E y \in yielded : y \notin TaskKeys(created)
               THEN /\ pc' = "raised"
                    /\ error' = "KeyError"
                    /\ tasks' = {x \in created : ~ExtractFails(x[1])}
                    /\ results' =
                         [results EXCEPT !.cells =
                            [x \in Cells |->
                               IF x \in created /\ ExtractFails(x[1])
                                             /\ ~SaveFails(x[1], x[2])
                               THEN "error" ELSE @[x]]]
               ELSE /\ pc' = "row_consume"
                    /\ tasks' = created
                    /\ UNCHANGED <<results, error>>
    /\ UNCHANGED <<call, fault, i, progress, ret>>
    /\ UNCHANGED notExecVars

\* A gather that returns without waiting for the tasks it was given.
ColumnCollect_NoWait ==
    /\ pc = "gather"
    /\ ret' = [d \in Docs |->
                 IF TaskOutcome(d, call.col) = "raised" THEN "error"
                 ELSE TaskOutcome(d, call.col)]
    /\ pc' = "column_summary"
    /\ UNCHANGED <<call, fault, i, tasks, progress, results, error>>
    /\ UNCHANGED notExecVars

\* executor.py:566-584  gather has returned: exceptions become error results
ColumnCollect ==
    /\ pc = "gather"
    /\ tasks = {}
    /\ ret' = [d \in Docs |->
                 IF TaskOutcome(d, call.col) = "raised" THEN "error"
                 ELSE TaskOutcome(d, call.col)]
    /\ pc' = "column_summary"
    /\ UNCHANGED <<call, fault, i, tasks, progress, results, error>>
    /\ UNCHANGED notExecVars

\* executor.py:417  execute_cell returns what _process_cell returns or raises
CellReturn ==
    /\ pc = "await_cell"
    /\ tasks = {}
    /\ IF TaskOutcome(call.doc, call.col) = "raised"
       THEN pc' = "raised" /\ error' = "OSError"
       ELSE pc' = "returned" /\ error' = error
    /\ UNCHANGED <<call, fault, i, tasks, progress, results, ret>>
    /\ UNCHANGED notExecVars

\* executor.py:632-691, 722-783, 804-879  a summary: "No data to summarize."
\* without an LLM call when nothing completed feeds it, else the LLM's
\* summary, or an error result when that call fails.
SummaryStatus(inputs) ==
    IF inputs = {} THEN "completed"
    ELSE IF SummaryFails THEN "error" ELSE "completed"

\* executor.py:612-692  _generate_row_summary
RowSummary(res, d) ==
    [res EXCEPT !.row_summaries[d] =
        SummaryStatus({c \in Cols : res.cells[<<d, c>>] = "completed"})]

\* executor.py:694-783  _generate_column_summary
ColumnSummary(res, c) ==
    [res EXCEPT !.column_summaries[c] =
        SummaryStatus({d \in Docs : res.cells[<<d, c>>] = "completed"})]

\* executor.py:785-879  _generate_overall_summary
OverallSummary(res) ==
    [res EXCEPT !.overall_summary =
        SummaryStatus(
            {<<"document", d>> : d \in {x \in Docs : res.row_summaries[x] = "completed"}}
            \cup {<<"question", c>> :
                    c \in {x \in Cols : res.column_summaries[x] = "completed"}})]

\* A row pass that goes on to the overall summary without the column pass.
GenRowSummary_SkipColumns ==
    /\ \/ /\ pc = "summ_rows"
          /\ results' = RowSummary(results, i)
          /\ IF i < NumDocs
             THEN pc' = pc /\ i' = i + 1
             ELSE pc' = "summ_overall" /\ i' = 1
       \/ /\ pc = "row_summary"
          /\ results' = RowSummary(results, call.doc)
          /\ pc' = "returned"
          /\ i' = i
    /\ UNCHANGED <<call, fault, tasks, progress, ret, error>>
    /\ UNCHANGED notExecVars

\* executor.py:601-603 (one document of _generate_summaries) and 516-519
\* (the row summary that ends execute_row)
GenRowSummary ==
    /\ \/ /\ pc = "summ_rows"
          /\ results' = RowSummary(results, i)
          /\ IF i < NumDocs
             THEN pc' = pc /\ i' = i + 1
             ELSE /\ pc' = IF call.ncols > 0 THEN "summ_cols" ELSE "summ_overall"
                  /\ i' = 1
       \/ /\ pc = "row_summary"
          /\ results' = RowSummary(results, call.doc)
          /\ pc' = "returned"
          /\ i' = i
    /\ UNCHANGED <<call, fault, tasks, progress, ret, error>>
    /\ UNCHANGED notExecVars

\* executor.py:605-607 (one column of _generate_summaries) and 581-584
\* (the column summary that ends execute_column)
GenColumnSummary ==
    /\ \/ /\ pc = "summ_cols"
          /\ results' = ColumnSummary(results, i)
          /\ IF i < call.ncols
             THEN pc' = pc /\ i' = i + 1
             ELSE pc' = "summ_overall" /\ i' = 1
       \/ /\ pc = "column_summary"
          /\ results' = ColumnSummary(results, call.col)
          /\ pc' = "returned"
          /\ i' = i
    /\ UNCHANGED <<call, fault, tasks, progress, ret, error>>
    /\ UNCHANGED notExecVars

\* executor.py:609-610, 222-225, 307-310  the overall summary, then the
\* phase "completed" and the return of the progress object
GenOverallSummary ==
    /\ pc = "summ_overall"
    /\ results' = OverallSummary(results)
    /\ progress' = [progress EXCEPT !.current_phase = "completed"]
    /\ pc' = "returned"
    /\ UNCHANGED <<call, fault, i, tasks, ret, error>>
    /\ UNCHANGED notExecVars

NextExec ==
    \/ ExecStart
    \/ BatchStart
    \/ \E cell \in Cells : TaskFinish(cell)
    \/ RowWiseDoc
    \/ ExecuteRowRowWise
    \/ ExecuteRowParallel
    \/ ColumnCollect
    \/ CellReturn
    \/ GenRowSummary
    \/ GenColumnSummary
    \/ GenOverallSummary

SpecExec == InitExec /\ [][NextExec]_vars

\* --------------------------------------- the row-wise path, cell by cell
\* llm.py complete_row_wise and the row_wise branch of execute_row, for one
\* document whose text was extracted and whose LLM call succeeded with the
\* reply `reply`; saves succeed.

Questions == 1..questions

\* What the reply holds under "answers" for a question id:
\*   "text"   {"answer": "<plain text>"}
\*   "cited"  {"answer": "<text with [[cite:...]] markers>"}
\*   "bare"   a value that is not an object
\*   "empty"  an object without the key "answer"
\*   "null"   {"answer": null}
AnswerKinds == {"text", "cited", "bare", "empty", "null"}

\* The forms of the model's reply (response.content of llm.py:422):
\*   "null_content"      content is null
\*   "no_object"         no '{' followed by a '}' in the text
\*   "bad_json"          the text between the braces does not decode
\*   "no_answers_key"    an object without the key "answers"
\*   "answers_not_dict"  "answers" is null or a number
\*   "answers"           "answers" maps some of the question ids to values
ReplyShapes ==
    {"null_content", "no_object", "bad_json", "no_answers_key",
     "answers_not_dict", "answers"}

Replies(n) ==
    {[shape |-> s, answers |-> <<>>] : s \in ReplyShapes \ {"answers"}}
    \cup {[shape |-> "answers", answers |-> f] :
            f \in UNION {[S -> AnswerKinds] : S \in SUBSET (1..n)}}

\* A content is a pair: what the text is and the question it answers (0 when
\* it answers none).
NoAnswerProvided == <<"[No answer provided]", 0>>
NoResponseAnswer == <<"[No response]", 0>>
RawReply == <<"raw", 0>>
NullContent == <<"None", 0>>

\* llm.py:436  answer_data.get("answer", "") if isinstance(answer_data, dict)
\* else str(answer_data)
AnswerText(kind, q) ==
    CASE kind = "text" -> <<"text", q>>
      [] kind = "cited" -> <<"cited", q>>
      [] kind = "bare" -> <<"str", q>>
      [] kind = "empty" -> <<"", 0>>
      [] kind = "null" -> NullContent

\* An entry that is left out when the id is absent from the answers.
RowWiseEntry_OmitAbsent(rep, q) ==
    IF q \in DOMAIN rep.answers
    THEN q :> AnswerText(rep.answers[q], q)
    ELSE <<>>

\* llm.py:432-447  the entry of one question, a one-entry map
RowWiseEntry(rep, q) ==
    IF q \in DOMAIN rep.answers
    THEN q :> AnswerText(rep.answers[q], q)
    ELSE q :> NoAnswerProvided

RECURSIVE MergeEntries(_, _, _)
MergeEntries(rep, q, n) ==
    IF q > n THEN <<>>
    ELSE RowWiseEntry(rep, q) @@ MergeEntries(rep, q + 1, n)

\* llm.py:422, 431  content.find on a null content, `q_id in answers` on an
\* answers value that is no container: neither is a JSONDecodeError.
RowWiseRaises(rep) == rep.shape \in {"null_content", "answers_not_dict"}

\* llm.py:419-457  the map complete_row_wise returns for n questions
RowWiseResults(rep, n) ==
    CASE rep.shape = "no_object" -> <<>>
      [] rep.shape = "bad_json" -> [q \in 1..n |-> RawReply]
      [] rep.shape = "no_answers_key" -> [q \in 1..n |-> NoAnswerProvided]
      [] rep.shape = "answers" -> MergeEntries(rep, 1, n)

\* citations.py:178-310  parse_response: the text with every citation marker
\* replaced by its reference number; a null text makes finditer raise.
ParseRaises(content) == content = NullContent
ParsedText(content) ==
    IF content[1] = "cited" THEN <<"numbered", content[2]>> ELSE content

\* The project has n columns; the reply is any of the forms above.
InitRowWise ==
    /\ ApiInit
    /\ ExecIdle
    /\ LLMIdle
    /\ CfgIdle
    /\ ColIdle
    /\ DocIdle
    /\ ChatIdle
    /\ CiteIdle
    /\ ExtractIdle
    /\ CellIdle
    /\ FolderIdle
    /\ RaceIdle
    /\ questions \in 0..MaxCols
    /\ reply \in Replies(questions)
    /\ responses = <<>>
    /\ saved = <<>>
    /\ rw_pc = "call"
    /\ rw_col = 0

\* llm.py:415-457  complete_row_wise from the reply on
RowWiseCall ==
    /\ rw_pc = "call"
    /\ IF RowWiseRaises(reply)
       THEN /\ rw_pc' = "raised"
            /\ UNCHANGED <<responses, rw_col>>
       ELSE /\ responses' = RowWiseResults(reply, questions)
            /\ rw_pc' = "columns"
            /\ rw_col' = 1
    /\ UNCHANGED <<questions, reply, saved>>
    /\ UNCHANGED notRowVars

\* executor.py:465-490  one column of the loop of execute_row, or its end
RowWiseColumn ==
    /\ rw_pc = "columns"
    /\ IF rw_col > questions
       THEN /\ rw_pc' = "summary"
            /\ UNCHANGED <<saved, rw_col>>
       ELSE IF rw_col \in DOMAIN responses
            THEN IF ParseRaises(responses[rw_col])
                 THEN /\ rw_pc' = "raised"
                      /\ UNCHANGED <<saved, rw_col>>
                 ELSE /\ saved' = (rw_col :> [answer |-> ParsedText(responses[rw_col]),
                                              status |-> "completed"]) @@ saved
                      /\ rw_col' = rw_col + 1
                      /\ rw_pc' = rw_pc
            ELSE /\ saved' = (rw_col :> [answer |-> NoResponseAnswer,
                                         status |-> "error"]) @@ saved
                 /\ rw_col' = rw_col + 1
                 /\ rw_pc' = rw_pc
    /\ UNCHANGED <<questions, reply, responses>>
    /\ UNCHANGED notRowVars

\* executor.py:516-519  the row summary and the return
RowWiseReturn ==
    /\ rw_pc = "summary"
    /\ rw_pc' = "returned"
    /\ UNCHANGED <<questions, reply, responses, saved, rw_col>>
    /\ UNCHANGED notRowVars

NextRowWise == RowWiseCall \/ RowWiseColumn \/ RowWiseReturn

SpecRowWise == InitRowWise /\ [][NextRowWise]_vars

\* ------------------------------------------------- llm.py  complete()
\* One call of LLMService.complete: the attempts, their POSTs and the waits
\* between them.  The server's answer to each POST is free.

\* HTTP statuses the endpoint answers with.
Statuses == {200, 400, 404, 429, 500, 503}

\* What a POST ends in: a response with a status, or httpx.RequestError
\* (network or connection failure).
Outcomes ==
    {[kind |-> "response", status |-> s] : s \in Statuses}
    \cup {[kind |-> "RequestError", status |-> 0]}

\* The exception object an attempt produced.
ErrorOf(o, a) ==
    [kind |-> IF o.kind = "response" THEN "HTTPStatusError" ELSE "RequestError",
     status |-> o.status, attempt |-> a]

\* httpx raise_for_status (llm.py:292): raises unless the status is 2xx
StatusRaises(status) == status < 200 \/ status >= 300

\* A retry rule that treats every 4xx like a server error.
ServerError_From400(status) == status >= 400

\* llm.py:323  e.response.status_code >= 500
ServerError(status) == status >= 500

\* A wait that grows linearly with the attempt number.
Backoff_Linear(delay, a) == delay * (a + 1)

\* llm.py:284, 325, 334  retry_delay * (2 ** attempt)
Backoff(delay, a) == delay * (2 ^ a)

\* llm.py:230-250, 268-270  the arguments and the state before the loop
InitComplete ==
    /\ ApiInit
    /\ ExecIdle
    /\ RowIdle
    /\ CfgIdle
    /\ ColIdle
    /\ DocIdle
    /\ ChatIdle
    /\ CiteIdle
    /\ ExtractIdle
    /\ CellIdle
    /\ FolderIdle
    /\ RaceIdle
    /\ retry_count \in 0..MaxRetries
    /\ retry_delay \in 1..MaxDelay
    /\ attempt = 0
    /\ posts = 0
    /\ history = <<>>
    /\ sleeps = <<>>
    /\ last_error = NoError
    /\ llm_pc = "post"
    /\ llm_error = NotRaised

\* llm.py:270-338  one attempt: the POST and what its outcome leads to
Post(o) ==
    /\ llm_pc = "post"
    /\ attempt < retry_count
    /\ posts' = posts + 1
    /\ history' = Append(history, o)
    /\ IF o.kind = "response" /\ o.status = 429
       THEN /\ sleeps' = Append(sleeps, Backoff(retry_delay, attempt))
            /\ llm_pc' = "sleep"
            /\ UNCHANGED <<last_error, llm_error>>
       ELSE IF o.kind = "response" /\ ~StatusRaises(o.status)
       THEN /\ llm_pc' = "returned"
            /\ UNCHANGED <<sleeps, last_error, llm_error>>
       ELSE IF o.kind = "response"
       THEN /\ last_error' = ErrorOf(o, attempt)
            /\ IF ServerError(o.status)
               THEN /\ sleeps' = Append(sleeps, Backoff(retry_delay, attempt))
                    /\ llm_pc' = "sleep"
                    /\ llm_error' = llm_error
               ELSE /\ llm_pc' = "raised"
                    /\ llm_error' = [kind |-> "HTTPStatusError",
                                      wraps |-> ErrorOf(o, attempt)]
                    /\ sleeps' = sleeps
       ELSE /\ last_error' = ErrorOf(o, attempt)
            /\ sleeps' = Append(sleeps, Backoff(retry_delay, attempt))
            /\ llm_pc' = "sleep"
            /\ llm_error' = llm_error
    /\ UNCHANGED <<retry_count, retry_delay, attempt>>
    /\ UNCHANGED notLLMVars

\* llm.py:290-291, 329-330, 337-338  asyncio.sleep returns, `continue`
Wake ==
    /\ llm_pc = "sleep"
    /\ attempt' = attempt + 1
    /\ llm_pc' = "post"
    /\ UNCHANGED <<retry_count, retry_delay, posts, history, sleeps,
                   last_error, llm_error>>
    /\ UNCHANGED notLLMVars

\* llm.py:340-346  the loop is exhausted:
\* raise Exception(f"Failed after {retry_count} retries: {last_error}")
Exhausted ==
    /\ llm_pc = "post"
    /\ attempt >= retry_count
    /\ llm_pc' = "raised"
    /\ llm_error' = [kind |-> "Exception", wraps |-> last_error]
    /\ UNCHANGED <<retry_count, retry_delay, attempt, posts, history, sleeps,
                   last_error>>
    /\ UNCHANGED notLLMVars

NextComplete == (\E o \in Outcomes : Post(o)) \/ Wake \/ Exhausted

SpecComplete == InitComplete /\ [][NextComplete]_vars

\* ------------------------------- project.py  config.json, read-modify-write
\* One project's config.json, rewritten by the worker thread of a background
\* execution (api.py:474-488) and by a request handler thread.  Every
\* ProjectManager operation loads the file, changes its copy and saves it
\* (project.py:599-608); no lock is held between the two.

Threads == {"worker", "handler"}

\* The places that make an LLM call on behalf of a project:
\*   worker   executor.py:336 (cell), 261 (row-wise, execute_all),
\*            458 (row-wise, execute_row), 653, 746, 842 (summaries)
\*   handler  executor.py:938 (chat, run by api_chat on its own thread)
WorkerSites ==
    {"cell", "row_wise_all", "row_wise_row", "row_summary", "column_summary",
     "overall_summary"}
Sites == WorkerSites \cup {"chat"}

\* executor.py:344-349, 661-666, 754-759, 850-855, 945-950: the sites that
\* call add_token_usage after their LLM call; 261-296 and 458-490 do not.
TracksUsage(site) ==
    site \in {"cell", "row_summary", "column_summary", "overall_summary", "chat"}

\* The config operations of the HTTP API (api.py:376-382, project.py:349-473)
ConfigOps ==
    {"update_project", "add_column", "update_column", "delete_column",
     "reorder_columns"}

\* llm.py:306-315  the usage of a successful response
Usages ==
    {[prompt_tokens |-> p, completion_tokens |-> c] :
        p \in 1..MaxUsage, c \in 1..MaxUsage}

\* project.py:304-311, 336-338, 372-373, 402-407, 428-429, 468-469: what an
\* operation changes in the copy it loaded
Modified(op, cfg, u) ==
    CASE op = "add_token_usage" ->
           [cfg EXCEPT !.total_input_tokens = @ + u.prompt_tokens,
                       !.total_output_tokens = @ + u.completion_tokens]
      [] op = "update_project" ->
           [cfg EXCEPT !.execution_mode =
               IF @ = "parallel" THEN "row_wise" ELSE "parallel"]
      [] op = "add_column" -> [cfg EXCEPT !.columns = @ + 1]
      [] op = "delete_column" ->
           [cfg EXCEPT !.columns = IF @ > 0 THEN @ - 1 ELSE 0]
      [] OTHER -> cfg

InitConfig ==
    /\ ApiInit
    /\ ExecIdle
    /\ RowIdle
    /\ LLMIdle
    /\ CfgIdle
    /\ ColIdle
    /\ DocIdle
    /\ ChatIdle
    /\ CiteIdle
    /\ ExtractIdle
    /\ CellIdle
    /\ FolderIdle
    /\ RaceIdle

\* A thread sends an LLM request for the project.
LLMCall(t, site) ==
    /\ thread[t].pc = "idle"
    /\ ops < MaxOps
    /\ site \in (IF t = "worker" THEN WorkerSites ELSE {"chat"})
    /\ thread' = [thread EXCEPT ![t] = [IdleThread EXCEPT !.pc = "llm", !.site = site]]
    /\ ops' = ops + 1
    /\ UNCHANGED <<config_json, billed>>
    /\ UNCHANGED notCfgVars

\* The call succeeds with usage u: a site that tracks usage goes on to
\* add_token_usage, the others go on without.
LLMReturn(t, u) ==
    /\ thread[t].pc = "llm"
    /\ billed' = [prompt_tokens |-> billed.prompt_tokens + u.prompt_tokens,
                  completion_tokens |-> billed.completion_tokens + u.completion_tokens]
    /\ thread' = [thread EXCEPT ![t] =
          IF TracksUsage(thread[t].site)
          THEN [@ EXCEPT !.pc = "load", !.op = "add_token_usage", !.usage = u]
          ELSE IdleThread]
    /\ UNCHANGED <<config_json, ops>>
    /\ UNCHANGED notCfgVars

\* The call fails: nothing was billed.
LLMFail(t) ==
    /\ thread[t].pc = "llm"
    /\ thread' = [thread EXCEPT ![t] = IdleThread]
    /\ UNCHANGED <<config_json, billed, ops>>
    /\ UNCHANGED notCfgVars

\* api.py:376-382 and the column routes: a request starts an operation
ConfigRequest(op) ==
    /\ thread["handler"].pc = "idle"
    /\ ops < MaxOps
    /\ thread' = [thread EXCEPT !["handler"] =
                     [IdleThread EXCEPT !.pc = "load", !.op = op]]
    /\ ops' = ops + 1
    /\ UNCHANGED <<config_json, billed>>
    /\ UNCHANGED notCfgVars

\* project.py:599-603  _load_config
Load(t) ==
    /\ thread[t].pc = "load"
    /\ thread' = [thread EXCEPT ![t] = [@ EXCEPT !.pc = "save", !.local = config_json]]
    /\ UNCHANGED <<config_json, billed, ops>>
    /\ UNCHANGED notCfgVars

\* project.py:605-608  _save_config of the changed copy
Save(t) ==
    /\ thread[t].pc = "save"
    /\ config_json' = Modified(thread[t].op, thread[t].local, thread[t].usage)
    /\ thread' = [thread EXCEPT ![t] = IdleThread]
    /\ UNCHANGED <<billed, ops>>
    /\ UNCHANGED notCfgVars

NextConfig ==
    \/ \E t \in Threads, site \in Sites : LLMCall(t, site)
    \/ \E t \in Threads, u \in Usages : LLMReturn(t, u)
    \/ \E t \in Threads : LLMFail(t)
    \/ \E op \in ConfigOps : ConfigRequest(op)
    \/ \E t \in Threads : Load(t)
    \/ \E t \in Threads : Save(t)

SpecConfig == InitConfig /\ [][NextConfig]_vars

\* ----------------------------- project.py  delete_column, reorder_columns
\* One call of a column operation on a project.  Names are sequences of
\* characters, so that a cell key "<filename>:<column_id>" and the suffix
\* test of delete_column are what the code computes.

\* Column ids as add_column makes them (project.py:367-370): "col_" and hex
\* digits, never a colon.  One id is the tail of another.
ColumnIds == {<<"c">>, <<"d">>, <<"c", "d">>}

\* An id that no column has.
UnknownId == <<"d", "d">>
RequestIds == ColumnIds \cup {UnknownId}

\* Document names; the second one holds a colon and ends like a cell key.
Filenames == {<<"f">>, <<"f", ":", "c">>}

\* project.py:185, 190  f"{filename}:{column_id}"
Key(filename, column_id) == filename \o <<":">> \o column_id

\* A suffix without the separating colon.
KeySuffix_NoColon(column_id) == column_id

\* project.py:435  f":{column_id}"
KeySuffix(column_id) == <<":">> \o column_id

\* str.endswith
EndsWith(s, suffix) ==
    /\ Len(s) >= Len(suffix)
    /\ SubSeq(s, Len(s) - Len(suffix) + 1, Len(s)) = suffix

Range(s) == {s[k] : k \in 1..Len(s)}

\* Sequences over S of length at most n
SeqsUpTo(S, n) == UNION {[1..k -> S] : k \in 0..n}

\* config.columns as add_column builds it: distinct ids.
ColumnLists ==
    {s \in SeqsUpTo(ColumnIds, Cardinality(ColumnIds)) :
        \A j, k \in 1..Len(s) : j # k => s[j] # s[k]}

\* project.py:427  [c for c in config.columns if c.id != column_id]
RECURSIVE WithoutColumn(_, _)
WithoutColumn(cols, column_id) ==
    IF cols = <<>> THEN <<>>
    ELSE IF Head(cols) = column_id THEN WithoutColumn(Tail(cols), column_id)
         ELSE <<Head(cols)>> \o WithoutColumn(Tail(cols), column_id)

\* project.py:433-436  the cells kept
CellsKept(keys, column_id) ==
    {k \in keys : ~EndsWith(k, KeySuffix(column_id))}

\* project.py:459-462  the supplied ids that are in col_map, in input order
RECURSIVE Mentioned(_, _)
Mentioned(ids, cols) ==
    IF ids = <<>> THEN <<>>
    ELSE IF Head(ids) \in Range(cols)
         THEN <<Head(ids)>> \o Mentioned(Tail(ids), cols)
         ELSE Mentioned(Tail(ids), cols)

\* No column is appended after the supplied ones.
Unmentioned_None(cols, ids) == <<>>

\* project.py:464-467  the columns of col_map missing from the input list
RECURSIVE Unmentioned(_, _)
Unmentioned(cols, ids) ==
    IF cols = <<>> THEN <<>>
    ELSE IF Head(cols) \notin Range(ids)
         THEN <<Head(cols)>> \o Unmentioned(Tail(cols), ids)
         ELSE Unmentioned(Tail(cols), ids)

\* The calls: delete_column(column_id), reorder_columns(column_ids)
PMCalls ==
    {[op |-> "delete_column", column_id |-> c, column_ids |-> <<>>] :
        c \in RequestIds}
    \cup {[op |-> "reorder_columns", column_id |-> <<>>, column_ids |-> s] :
        s \in SeqsUpTo(RequestIds, MaxReorder)}

\* The project before the call: any list of distinct columns; for
\* delete_column any results for some of the columns, with their summaries.
InitColumns ==
    /\ ApiInit
    /\ ExecIdle
    /\ RowIdle
    /\ LLMIdle
    /\ CfgIdle
    /\ DocIdle
    /\ ChatIdle
    /\ CiteIdle
    /\ ExtractIdle
    /\ CellIdle
    /\ FolderIdle
    /\ RaceIdle
    /\ pm_call \in PMCalls
    /\ columns \in ColumnLists
    /\ IF pm_call.op = "delete_column"
       THEN /\ \E A \in SUBSET ColumnIds, F \in SUBSET Filenames :
                 cell_keys = {Key(f, c) : f \in F, c \in A}
            /\ column_summaries \in SUBSET ColumnIds
            /\ row_summaries \in {{}, Filenames}
            /\ overall_summary \in BOOLEAN
       ELSE /\ cell_keys = {Key(f, c) : f \in Filenames, c \in ColumnIds}
            /\ column_summaries = ColumnIds
            /\ row_summaries = Filenames
            /\ overall_summary = TRUE
    /\ pm_pc = "call"
    /\ pm_ret = <<>>

\* project.py:414-439  delete_column
DeleteColumn ==
    /\ pm_pc = "call"
    /\ pm_call.op = "delete_column"
    /\ columns' = WithoutColumn(columns, pm_call.column_id)
    /\ cell_keys' = CellsKept(cell_keys, pm_call.column_id)
    /\ column_summaries' = column_summaries \ {pm_call.column_id}
    /\ pm_pc' = "returned"
    /\ UNCHANGED <<row_summaries, overall_summary, pm_call, pm_ret>>
    /\ UNCHANGED notColVars

\* project.py:441-473  reorder_columns
ReorderColumns ==
    /\ pm_pc = "call"
    /\ pm_call.op = "reorder_columns"
    /\ columns' = Mentioned(pm_call.column_ids, columns)
                    \o Unmentioned(columns, pm_call.column_ids)
    /\ pm_ret' = columns'
    /\ pm_pc' = "returned"
    /\ UNCHANGED <<cell_keys, column_summaries, row_summaries, overall_summary, pm_call>>
    /\ UNCHANGED notColVars

NextColumns == DeleteColumn \/ ReorderColumns

SpecColumns == InitColumns /\ [][NextColumns]_vars

\* ------------------------------------------- DocumentProcessor (documents.py)
\* One document of the root folder and its entry in the text cache. The
\* cache path is f"{filename}.json" (storage.py:79), one entry per
\* filename, so the documents are independent of each other and one is
\* followed. ".PDF" is a suffix that is supported only after lower();
\* ".png" is not supported.
DocNames == {"a.txt", "b.PDF", "c.png"}

\* doc_path.suffix
Suffix(filename) ==
    CASE filename = "a.txt" -> ".txt"
      [] filename = "b.PDF" -> ".PDF"
      [] filename = "c.png" -> ".png"

\* str.lower() on the suffixes above (documents.py:65)
Lower(suffix) ==
    CASE suffix = ".PDF" -> ".pdf"
      [] OTHER -> suffix

\* documents.py:90-98: the keys of the extractors dict
Extractors == {".txt", ".md", ".csv", ".json", ".pdf", ".docx", ".xlsx"}

\* documents.py:81-99: the extractor of the extension, or None
GetExtractor(extension) ==
    IF extension \in Extractors THEN extension ELSE "None"

Mtimes == 1..MaxMtime
Versions == 1..MaxVersion

\* The states of the document on disk: absent, or present with a
\* modification time and a content.
DocFiles == {NoFile} \cup [exists : {TRUE}, mtime : Mtimes, content : Versions]

\* storage.py:182-191
GetFileMtime(file) == IF file.exists THEN file.mtime ELSE 0

\* json.dumps of an Extraction Record (storage.py:177-180) and json.loads
\* of what was written (storage.py:165): the record's members are strings,
\* integers, lists and one float, which JSON gives back unchanged.
Dumps(record) == <<record.text, record.mtime, record.filename>>
Loads(body) == [text |-> body[1], mtime |-> body[2], filename |-> body[3]]

\* storage.py:153-167: None when the file is absent or is not JSON
ReadJson(cache) ==
    IF cache.state = "json" THEN Loads(cache.body) ELSE NoRecord

CacheValid_IgnoreForce(force_refresh, cache, current_mtime) ==
    /\ cache.state # "absent"
    /\ LET cached == ReadJson(cache)
       IN  cached # NoRecord /\ cached.mtime = current_mtime

\* documents.py:59-62: the test that makes the call return the cached
\* record
CacheValid(force_refresh, cache, current_mtime) ==
    /\ ~force_refresh
    /\ cache.state # "absent"
    /\ LET cached == ReadJson(cache)
       IN  cached # NoRecord /\ cached.mtime = current_mtime

\* What can go wrong after the cache test: the extractor raises (a corrupt
\* PDF, a missing library), or write_text raises after it truncated the
\* cache file (storage.py:177).
ExtractFaults == {"none", "extractor", "write"}

InitDoc ==
    /\ ApiInit
    /\ ExecIdle
    /\ RowIdle
    /\ LLMIdle
    /\ CfgIdle
    /\ ColIdle
    /\ ChatIdle
    /\ CiteIdle
    /\ ExtractIdle
    /\ CellIdle
    /\ FolderIdle
    /\ RaceIdle
    /\ doc_name \in DocNames
    /\ doc_file \in DocFiles
    /\ cache_file = NoCache
    /\ dp_call = NoDocCall
    /\ dp_pc = "idle"
    /\ dp_ret = NoDocRet
    /\ extractions = 0

\* documents.py:52-62: the existence test, the cache path, the current
\* mtime and the cache test. The call returns the cached record here or
\* goes on to extract.
GetDocumentText(force_refresh) ==
    /\ dp_pc = "idle"
    /\ dp_call.n < MaxCalls
    /\ LET current_mtime == GetFileMtime(doc_file)
           n == dp_call.n + 1
       IN  /\ dp_call' = [n |-> n, filename |-> doc_name,
                          force_refresh |-> force_refresh, file |-> doc_file,
                          cache |-> cache_file,
                          current_mtime |-> current_mtime]
           /\ IF ~doc_file.exists
              THEN /\ dp_ret' = [n |-> n, kind |-> "FileNotFoundError",
                                 record |-> NoRecord]
                   /\ dp_pc' = "idle"
              ELSE IF CacheValid(force_refresh, cache_file, current_mtime)
              THEN /\ dp_ret' = [n |-> n, kind |-> "cached",
                                 record |-> ReadJson(cache_file)]
                   /\ dp_pc' = "idle"
              ELSE /\ dp_ret' = dp_ret
                   /\ dp_pc' = "extract"
    /\ UNCHANGED <<doc_name, doc_file, cache_file, extractions>>
    /\ UNCHANGED notDocVars

\* documents.py:64-79: the extractor of the lowered suffix runs on the file
\* as it is now, the record gets the mtime read at line 56 and the
\* filename, and is written to the cache and returned.
ExtractAndCache(failure) ==
    /\ dp_pc = "extract"
    /\ dp_pc' = "idle"
    /\ LET extractor == GetExtractor(Lower(Suffix(doc_name)))
           result == [text |-> doc_file.content,
                      mtime |-> dp_call.current_mtime,
                      filename |-> doc_name]
       IN  IF extractor = "None"
           THEN /\ dp_ret' = [n |-> dp_call.n, kind |-> "ValueError",
                              record |-> NoRecord]
                /\ UNCHANGED <<cache_file, extractions>>
           ELSE IF failure = "extractor" \/ ~doc_file.exists
           THEN /\ dp_ret' = [n |-> dp_call.n, kind |-> "ExtractorError",
                              record |-> NoRecord]
                /\ UNCHANGED <<cache_file, extractions>>
           ELSE IF failure = "write"
           THEN /\ dp_ret' = [n |-> dp_call.n, kind |-> "OSError",
                              record |-> NoRecord]
                /\ cache_file' = [state |-> "unreadable", body |-> <<>>]
                /\ extractions' = extractions + 1
           ELSE /\ dp_ret' = [n |-> dp_call.n, kind |-> "extracted",
                              record |-> result]
                /\ cache_file' = [state |-> "json", body |-> Dumps(result)]
                /\ extractions' = extractions + 1
    /\ UNCHANGED <<doc_name, doc_file, dp_call>>
    /\ UNCHANGED notDocVars

\* The user writes, replaces, touches or deletes the document in the root
\* folder, at any moment (the folder is the user's, storage.py:193-204
\* lists whatever is there).
ModifyFile(file) ==
    /\ file # doc_file
    /\ doc_file' = file
    /\ UNCHANGED <<doc_name, cache_file, dp_call, dp_pc, dp_ret, extractions>>
    /\ UNCHANGED notDocVars

NextDoc ==
    \/ \E force_refresh \in BOOLEAN : GetDocumentText(force_refresh)
    \/ \E failure \in ExtractFaults : ExtractAndCache(failure)
    \/ \E file \in DocFiles : ModifyFile(file)

SpecDoc == InitDoc /\ [][NextDoc]_vars

\* -------------------------------------------- chat_query (executor.py:881)
\* Request threads run chat_query for one project (api.py:559-585, each
\* through run_async). chat.json holds the list of messages; a message
\* is modelled by its role and its content, a content by a number.
ChatThreads == 1..NumChats

Message(role, content) == [role |-> role, content |-> content]

\* A chat.json that earlier exchanges left: n messages, user and assistant
\* in turn, message k with content k.
StoredHistory(n) ==
    [k \in 1..n |-> Message(IF k % 2 = 1 THEN "user" ELSE "assistant", k)]

\* What the user may type: a text that is stored already (1) or a new
\* one, per thread.
UserMessages(t) == {1, 100 + t}

\* What the assistant of thread t answers.
Reply(t) == 200 + t

\* Python's seq[-n:] for n > 0: the last n elements, all when there are
\* fewer.
LastN(seq, n) ==
    IF Len(seq) <= n THEN seq ELSE SubSeq(seq, Len(seq) - n + 1, Len(seq))

Turns_FirstTen(stored, message) ==
    SubSeq(stored, 1, Min(Len(stored), CHAT_HISTORY_TURNS))
        \o <<Message("user", message)>>

\* executor.py:925-931: role and content of history[-10:], then the new
\* user message
Turns(stored, message) ==
    LastN(stored, CHAT_HISTORY_TURNS) \o <<Message("user", message)>>

\* What ends the call after the user message was saved: the LLM call
\* raises (executor.py:937), add_token_usage raises (948), or
\* parse_multi_document_response raises on a content of None (953).
ChatOutcomes == {"ok", "llm_raises", "usage_raises", "parse_raises"}

InitChat ==
    /\ ApiInit
    /\ ExecIdle
    /\ RowIdle
    /\ LLMIdle
    /\ CfgIdle
    /\ ColIdle
    /\ DocIdle
    /\ CiteIdle
    /\ ExtractIdle
    /\ CellIdle
    /\ FolderIdle
    /\ RaceIdle
    /\ chat_json \in {StoredHistory(n) : n \in 0..MaxStored}
    /\ chat = [t \in ChatThreads |-> IdleChat]
    /\ sent = [t \in ChatThreads |-> <<>>]
    /\ wrote = [t \in ChatThreads |-> <<>>]

\* executor.py:897-931: get_project (ValueError when the project is not
\* there), the document context, get_chat_history and the list of turns.
ChatStart(t, message, found) ==
    /\ chat[t].pc = "idle"
    /\ chat' = [chat EXCEPT ![t] =
          IF ~found
          THEN [@ EXCEPT !.pc = "raised", !.message = message]
          ELSE [@ EXCEPT !.pc = "save_user", !.message = message,
                         !.stored = chat_json,
                         !.messages = Turns(chat_json, message)]]
    /\ UNCHANGED <<chat_json, sent, wrote>>
    /\ UNCHANGED notChatVars

\* project.py:573-574 in save_chat_message: read chat.json
SaveLoad(t) ==
    /\ chat[t].pc \in {"save_user", "save_assistant"}
    /\ chat' = [chat EXCEPT ![t] =
          [@ EXCEPT !.pc = IF @ = "save_user" THEN "write_user"
                           ELSE "write_assistant",
                    !.data = chat_json]]
    /\ UNCHANGED <<chat_json, sent, wrote>>
    /\ UNCHANGED notChatVars

\* project.py:576-586 for the call at executor.py:934: append the user
\* message to what was read and write chat.json
SaveUserMessage(t) ==
    /\ chat[t].pc = "write_user"
    /\ chat_json' = Append(chat[t].data, Message("user", chat[t].message))
    /\ wrote' = [wrote EXCEPT ![t] = Append(@, "user")]
    /\ chat' = [chat EXCEPT ![t] = [@ EXCEPT !.pc = "llm"]]
    /\ UNCHANGED sent
    /\ UNCHANGED notChatVars

\* executor.py:937-955: the LLM call with the turns, the token accrual and
\* the citation parsing
ChatLLM(t, outcome) ==
    /\ chat[t].pc = "llm"
    /\ sent' = [sent EXCEPT ![t] = chat[t].messages]
    /\ chat' = [chat EXCEPT ![t] =
          IF outcome = "ok"
          THEN [@ EXCEPT !.pc = "save_assistant", !.parsed = Reply(t)]
          ELSE [@ EXCEPT !.pc = "raised"]]
    /\ UNCHANGED <<chat_json, wrote>>
    /\ UNCHANGED notChatVars

\* project.py:576-586 for the call at executor.py:958-963: append the
\* assistant message and write chat.json; chat_query returns (965-969)
SaveAssistantMessage(t) ==
    /\ chat[t].pc = "write_assistant"
    /\ chat_json' = Append(chat[t].data, Message("assistant", chat[t].parsed))
    /\ wrote' = [wrote EXCEPT ![t] = Append(@, "assistant")]
    /\ chat' = [chat EXCEPT ![t] = [@ EXCEPT !.pc = "returned"]]
    /\ UNCHANGED sent
    /\ UNCHANGED notChatVars

NextChat ==
    \/ \E t \in ChatThreads, found \in BOOLEAN :
          \E message \in UserMessages(t) : ChatStart(t, message, found)
    \/ \E t \in ChatThreads : SaveLoad(t)
    \/ \E t \in ChatThreads : SaveUserMessage(t)
    \/ \E t \in ChatThreads, outcome \in ChatOutcomes : ChatLLM(t, outcome)
    \/ \E t \in ChatThreads : SaveAssistantMessage(t)

SpecChat == InitChat /\ [][NextChat]_vars

\* ------------------------------------------------ CitationParser (citations.py)
\* A document text is a string over two letters that differ in case only;
\* a response is the sequence of its citation markers, in text order.
Letters == {"a", "A"}

LowerLetter(ch) == IF ch = "A" THEN "a" ELSE ch

\* str.lower()
LowerText(text) == [k \in 1..Len(text) |-> LowerLetter(text[k])]

Strings(n) == UNION {[1..k -> Letters] : k \in 0..n}

SourceTexts == Strings(MaxText)

\* QUOTE_PATTERN (citations.py:114-117) takes one or more characters
\* between the quotes.
Quotes == Strings(MaxQuote) \ {<<>>}

\* POSITION_PATTERN (citations.py:120-123) takes two runs of digits.
Positions == 0..MaxPosition

\* [[cite:"text"]], [[cite:start:end]] and, for
\* parse_multi_document_response, [[cite:filename:"text"]].
QuoteMarkers == [kind : {"quote", "multi"}, quote : Quotes, start : {0}, end : {0}]
PositionMarkers == [kind : {"position"}, quote : {<<>>}, start : Positions, end : Positions]
Markers == QuoteMarkers \cup PositionMarkers

Responses == UNION {[1..k -> Markers] : k \in 0..MaxMarkers}

\* str.find: the lowest 0-based index at which sub occurs in text, or -1
StrFind(text, sub) ==
    LET hits == {p \in 0..(Len(text) - Len(sub)) :
                    SubSeq(text, p + 1, p + Len(sub)) = sub}
    IN  IF hits = {} THEN -1
        ELSE CHOOSE p \in hits : \A q \in hits : p <= q

NotFound == [found |-> FALSE, char_start |-> 0, char_end |-> 0]

\* documents.py:344-386 find_text_location: an exact search, then a
\* case-insensitive one; the end is the start plus the length searched for
FindTextLocation(text, search_text) ==
    LET exact == StrFind(text, search_text)
        start_pos == IF exact = -1
                     THEN StrFind(LowerText(text), LowerText(search_text))
                     ELSE exact
    IN  IF start_pos = -1 THEN NotFound
        ELSE [found |-> TRUE, char_start |-> start_pos,
              char_end |-> start_pos + Len(search_text)]

Citation(kind, page, char_start, char_end) ==
    [kind |-> kind, page |-> page, char_start |-> char_start,
     char_end |-> char_end]

\* citations.py:203-243 and 337-383: the citation of a quoted marker, at
\* the location found or, unresolved, at 0..0 with page 0
QuoteCitation(text, marker) ==
    LET location == FindTextLocation(text, marker.quote)
    IN  IF location.found
        THEN Citation(marker.kind, 1, location.char_start, location.char_end)
        ELSE Citation(marker.kind, 0, 0, 0)

\* citations.py:257-296: the citation of a positional marker carries the
\* two numbers as they are, whether the document could be read (278-286)
\* or not (288-296)
PositionCitation(ok, marker) ==
    Citation("position", IF ok THEN 1 ELSE 0, marker.start, marker.end)

RECURSIVE SelectKind(_, _)
SelectKind(seq, kinds) ==
    IF seq = <<>> THEN <<>>
    ELSE (IF Head(seq).kind \in kinds THEN <<Head(seq)>> ELSE <<>>)
            \o SelectKind(Tail(seq), kinds)

\* citations.py:202-305 parse_response: the quoted markers in text order
\* (202-253), then the positional ones (256-305)
ParseResponse(text, ok, response_text) ==
    LET quoted == SelectKind(response_text, {"quote"})
        positional == SelectKind(response_text, {"position"})
    IN  [k \in 1..Len(quoted) |-> QuoteCitation(text, quoted[k])]
        \o [k \in 1..Len(positional) |-> PositionCitation(ok, positional[k])]

\* citations.py:337-417 parse_multi_document_response: the markers that
\* name a file first, unresolved when the lookup raises (385-394), then
\* what parse_response makes of the rest (405-411)
ParseMultiDocumentResponse(text, ok, response_text) ==
    LET multi == SelectKind(response_text, {"multi"})
    IN  [k \in 1..Len(multi) |->
            IF ok THEN QuoteCitation(text, multi[k])
            ELSE Citation("multi", 0, 0, 0)]
        \o ParseResponse(text, ok, response_text)

\* find_text_location is called outside any try in parse_response
\* (citations.py:206): with an unreadable document a quoted marker makes
\* the call raise.
ParseRaisesOn(ok, response_text) ==
    ~ok /\ SelectKind(response_text, {"quote"}) # <<>>

InitCite ==
    /\ ApiInit
    /\ ExecIdle
    /\ RowIdle
    /\ LLMIdle
    /\ CfgIdle
    /\ ColIdle
    /\ DocIdle
    /\ ChatIdle
    /\ ExtractIdle
    /\ CellIdle
    /\ FolderIdle
    /\ RaceIdle
    /\ source_text \in SourceTexts
    /\ source_ok \in BOOLEAN
    /\ markers \in Responses
    /\ parsed_citations = <<>>
    /\ cp_pc = "idle"

\* parse_response on a response without markers that name a file
ParseResponseCall ==
    /\ cp_pc = "idle"
    /\ SelectKind(markers, {"multi"}) = <<>>
    /\ IF ParseRaisesOn(source_ok, markers)
       THEN cp_pc' = "raised" /\ UNCHANGED parsed_citations
       ELSE /\ cp_pc' = "parse_response"
            /\ parsed_citations' = ParseResponse(source_text, source_ok, markers)
    /\ UNCHANGED <<source_text, source_ok, markers>>
    /\ UNCHANGED notCiteVars

ParseMultiDocumentResponseCall ==
    /\ cp_pc = "idle"
    /\ IF ParseRaisesOn(source_ok, markers)
       THEN cp_pc' = "raised" /\ UNCHANGED parsed_citations
       ELSE /\ cp_pc' = "parse_multi_document_response"
            /\ parsed_citations'
                  = ParseMultiDocumentResponse(source_text, source_ok, markers)
    /\ UNCHANGED <<source_text, source_ok, markers>>
    /\ UNCHANGED notCiteVars

NextCite == ParseResponseCall \/ ParseMultiDocumentResponseCall

SpecCite == InitCite /\ [][NextCite]_vars

\* ----------------------------------------- the extractors (documents.py:101-327)
\* A text is a sequence of characters. A file is given by its units: the
\* page texts of a PDF after _clean_text, the row text of each sheet of a
\* workbook, the one text of the other formats.
Formats == {".txt", ".csv", ".json", ".docx", ".pdf", ".xlsx"}

UnitTexts == UNION {[1..k -> {"x"}] : k \in 0..MaxPageLen}

UnitLists == UNION {[1..k -> UnitTexts] : k \in 0..MaxPages}

\* str.join
RECURSIVE Join(_, _)
Join(sep, texts) ==
    IF texts = <<>> THEN <<>>
    ELSE IF Len(texts) = 1 THEN texts[1]
    ELSE texts[1] \o sep \o Join(sep, Tail(texts))

Page(char_start, text) ==
    [char_start |-> char_start, char_end |-> char_start + Len(text)]

\* documents.py:116-121, 159-165, 184-189, 265-271: one page from 0 to
\* len(text); a CSV without rows has no page (141-142)
SinglePage(format, units) ==
    LET text == IF units = <<>> THEN <<>> ELSE units[1]
    IN  IF format = ".csv" /\ units = <<>>
        THEN NoExtraction
        ELSE [text |-> text, pages |-> <<Page(0, text)>>]

\* The pages of a multi-unit file: each starts at char_offset, and
\* char_offset advances by len(text) plus the length of the separator
\* (documents.py:209-222, 292-318).
RECURSIVE Pages(_, _, _)
Pages(texts, char_offset, gap) ==
    IF texts = <<>> THEN <<>>
    ELSE <<Page(char_offset, Head(texts))>>
            \o Pages(Tail(texts), char_offset + Len(Head(texts)) + gap, gap)

\* documents.py:205-231: the page texts joined with "\n"
ExtractPdf(units) ==
    [text |-> Join(<<"\n">>, units), pages |-> Pages(units, 0, 1)]

\* documents.py:296-307: a sheet's text starts with its "=== Sheet: ..."
\* line, here one character
SheetText(rows) == <<"=">> \o rows

\* documents.py:288-327: the sheet texts joined with "\n\n"
ExtractXlsx(units) ==
    LET sheets == [k \in 1..Len(units) |-> SheetText(units[k])]
    IN  [text |-> Join(<<"\n", "\n">>, sheets), pages |-> Pages(sheets, 0, 2)]

\* documents.py:90-98 and the extractor chosen
Extractor(format, units) ==
    CASE format = ".pdf" -> ExtractPdf(units)
      [] format = ".xlsx" -> ExtractXlsx(units)
      [] OTHER -> SinglePage(format, units)

InitExtract ==
    /\ ApiInit
    /\ ExecIdle
    /\ RowIdle
    /\ LLMIdle
    /\ CfgIdle
    /\ ColIdle
    /\ DocIdle
    /\ ChatIdle
    /\ CiteIdle
    /\ CellIdle
    /\ FolderIdle
    /\ RaceIdle
    /\ ex_format \in Formats
    /\ ex_units \in UnitLists
    /\ ex_format \notin {".pdf", ".xlsx", ".csv"} => Len(ex_units) = 1
    /\ ex_format = ".csv" => Len(ex_units) <= 1
    /\ ex_record = NoExtraction
    /\ ex_pc = "idle"

\* documents.py:71: result = extractor(doc_path)
Extract ==
    /\ ex_pc = "idle"
    /\ ex_pc' = "extracted"
    /\ ex_record' = Extractor(ex_format, ex_units)
    /\ UNCHANGED <<ex_format, ex_units>>
    /\ UNCHANGED notExtractVars

NextExtract == Extract

SpecExtract == InitExtract /\ [][NextExtract]_vars

\* ------------------------------------- _process_cell (executor.py:312-379)
\* The tasks of one batch of _execute_parallel (executor.py:195-211). They
\* are coroutines of one event loop in one thread: a task runs from one
\* await to the next without another task of the loop running in between.
\* The only await of _process_cell is the LLM call (executor.py:336), so a
\* task is two steps: up to the LLM request, and from the LLM's outcome
\* to its return, save_cell_result included (374-377; project.py:490-492,
\* which has no await).
BatchCells == Filenames \X ColumnIds

Batches ==
    {b \in SUBSET BatchCells : Cardinality(b) >= 1 /\ Cardinality(b) <= MaxTasks}

NoAnswer == <<"", 0>>

NoCellResult == [status |-> "none", answer |-> NoAnswer, error |-> "None"]

\* executor.py:357-363
CompletedResult(answer) ==
    [status |-> "completed", answer |-> answer, error |-> "None"]

\* executor.py:365-372, error = str(e)
ErrorResult(message) ==
    [status |-> "error", answer |-> NoAnswer, error |-> message]

\* A result that an earlier run left in results.json.
OldResult == CompletedResult(<<"old", 0>>)

\* get_document_text returns, or raises for a missing file
\* (documents.py:54) or an unsupported type (documents.py:69).
Extractions == {"ok", "Document not found", "Unsupported file type"}

\* complete_with_document raises, or returns a response with a content (a
\* text, a text with citation markers, or None) and with or without a
\* usage.
NoLLMOutcome == [kind |-> "none", content |-> NullContent, usage |-> FALSE]

LLMOutcomes ==
    {[kind |-> "raises", content |-> NullContent, usage |-> FALSE]}
    \cup [kind : {"response"},
          content : {<<"text", 1>>, <<"cited", 1>>, NullContent},
          usage : BOOLEAN]

NewTask ==
    [pc |-> "created", extraction |-> "ok", llm |-> NoLLMOutcome,
     accrued |-> TRUE, result |-> NoCellResult]

ProcessCellResult_AccrualIgnored(extraction, llm, accrued) ==
    IF extraction # "ok" THEN ErrorResult(extraction)
    ELSE IF llm.kind = "raises" THEN ErrorResult("Failed after retries")
    ELSE IF ParseRaises(llm.content) THEN ErrorResult("TypeError")
    ELSE CompletedResult(ParsedText(llm.content))

\* executor.py:330-372: the try block and its except Exception.
\* add_token_usage is called only when the response has a usage (344) and
\* raises when the project's config is gone (project.py:333-334).
ProcessCellResult(extraction, llm, accrued) ==
    IF extraction # "ok" THEN ErrorResult(extraction)
    ELSE IF llm.kind = "raises" THEN ErrorResult("Failed after retries")
    ELSE IF llm.usage /\ ~accrued THEN ErrorResult("Project not found")
    ELSE IF ParseRaises(llm.content) THEN ErrorResult("TypeError")
    ELSE CompletedResult(ParsedText(llm.content))

SetCell_OnEmpty(saved_cells, key, result) ==
    [k \in DOMAIN saved_cells |-> IF k = key THEN result ELSE NoCellResult]

\* project.py:188-191 set_cell on the results just loaded
SetCell(saved_cells, key, result) == [saved_cells EXCEPT ![key] = result]

InitCell ==
    /\ ApiInit
    /\ ExecIdle
    /\ RowIdle
    /\ LLMIdle
    /\ CfgIdle
    /\ ColIdle
    /\ DocIdle
    /\ ChatIdle
    /\ CiteIdle
    /\ ExtractIdle
    /\ FolderIdle
    /\ RaceIdle
    /\ \E prior \in {NoCellResult, OldResult} :
          results_json = [k \in {Key(c[1], c[2]) : c \in BatchCells} |-> prior]
    /\ \E b \in Batches : cell_task = [c \in b |-> NewTask]
    /\ save_count = [c \in BatchCells |-> 0]

\* project.py:490-492 save_cell_result and the return (executor.py:374-379)
SaveAndReturn(cell, task) ==
    /\ results_json' = SetCell(results_json, Key(cell[1], cell[2]), task.result)
    /\ save_count' = [save_count EXCEPT ![cell] = @ + 1]
    /\ cell_task' = [cell_task EXCEPT ![cell] = [task EXCEPT !.pc = "returned"]]

\* executor.py:330-341: the task starts; a failing extraction takes it
\* through the except branch and the save to its return at once.
CellBegin(cell, extraction) ==
    /\ cell \in DOMAIN cell_task
    /\ cell_task[cell].pc = "created"
    /\ IF extraction = "ok"
       THEN /\ cell_task' = [cell_task EXCEPT ![cell].pc = "awaiting"]
            /\ UNCHANGED <<results_json, save_count>>
       ELSE SaveAndReturn(cell,
               [cell_task[cell] EXCEPT
                   !.extraction = extraction,
                   !.result = ProcessCellResult(extraction, NoLLMOutcome, TRUE)])
    /\ UNCHANGED notCellVars

\* executor.py:336-379: the LLM call ends and the task runs to its return.
CellResume(cell, llm, accrued) ==
    /\ cell \in DOMAIN cell_task
    /\ cell_task[cell].pc = "awaiting"
    /\ ~llm.usage => accrued
    /\ SaveAndReturn(cell,
          [cell_task[cell] EXCEPT
              !.llm = llm, !.accrued = accrued,
              !.result = ProcessCellResult("ok", llm, accrued)])
    /\ UNCHANGED notCellVars

NextCell ==
    \/ \E cell \in BatchCells, extraction \in Extractions :
          CellBegin(cell, extraction)
    \/ \E cell \in BatchCells, llm \in LLMOutcomes, accrued \in BOOLEAN :
          CellResume(cell, llm, accrued)

SpecCell == InitCell /\ [][NextCell]_vars

\* The event loop runs every task that is ready, and the LLM call of a
\* task ends (with a response or, after the retries, an exception).
FairSpecCell ==
    /\ SpecCell
    /\ \A cell \in BatchCells :
          /\ WF_vars(\E extraction \in Extractions : CellBegin(cell, extraction))
          /\ WF_vars(\E llm \in LLMOutcomes, accrued \in BOOLEAN :
                        CellResume(cell, llm, accrued))

\* ------------------------------------------ project folders (storage.py)
\* The folder of each project name under .doc_matrix/projects with the
\* JSON files in it, the requests that touch it, and the writes of a
\* background execution that was started while the project existed.
ProjectFiles == {"config.json", "results.json", "chat.json"}

\* storage.py:176-180 write_json: path.parent.mkdir(parents=True,
\* exist_ok=True), then the file is written
WriteJson(folder, file) == [exists |-> TRUE, files |-> folder.files \cup {file}]

InitFolders ==
    /\ ApiInit
    /\ ExecIdle
    /\ RowIdle
    /\ LLMIdle
    /\ CfgIdle
    /\ ColIdle
    /\ DocIdle
    /\ ChatIdle
    /\ CiteIdle
    /\ ExtractIdle
    /\ CellIdle
    /\ RaceIdle
    /\ folders = [p \in Projects |-> NoFolder]
    /\ made = [p \in Projects |-> FALSE]
    /\ executing = {}
    /\ folder_response = NoFolderResponse

\* api.py:339-362, project.py:245-256, storage.py:116-132: ValueError,
\* answered 400, when the folder exists; else the folder, config.json
\* and results.json
CreateProject(p) ==
    IF folders[p].exists
    THEN /\ folder_response' = [op |-> "create_project", name |-> p,
                                code |-> "400 already exists"]
         /\ UNCHANGED <<folders, made, executing>>
         /\ UNCHANGED notFolderVars
    ELSE /\ folders' = [folders EXCEPT ![p] =
               [exists |-> TRUE, files |-> {"config.json", "results.json"}]]
         /\ made' = [made EXCEPT ![p] = TRUE]
         /\ folder_response' = [op |-> "create_project", name |-> p,
                                code |-> "200"]
         /\ UNCHANGED executing
         /\ UNCHANGED notFolderVars

\* api.py:387-396, storage.py:134-151: ValueError, answered 404, when the
\* folder is absent; else its files and the folder are removed
DeleteProject(p) ==
    IF ~folders[p].exists
    THEN /\ folder_response' = [op |-> "delete_project", name |-> p,
                                code |-> "404"]
         /\ UNCHANGED <<folders, made, executing>>
         /\ UNCHANGED notFolderVars
    ELSE /\ folders' = [folders EXCEPT ![p] = NoFolder]
         /\ made' = [made EXCEPT ![p] = FALSE]
         /\ folder_response' = [op |-> "delete_project", name |-> p,
                                code |-> "200"]
         /\ UNCHANGED executing
         /\ UNCHANGED notFolderVars

\* api.py:594-599, project.py:590-597: no test that the project exists
ClearChatHistory(p) ==
    /\ folders' = [folders EXCEPT ![p] = WriteJson(@, "chat.json")]
    /\ folder_response' = [op |-> "clear_chat_history", name |-> p,
                           code |-> "200"]
    /\ UNCHANGED <<made, executing>>
    /\ UNCHANGED notFolderVars

\* The coroutine of a background execution gets past get_project
\* (executor.py:127-129; project.py:269-276: the folder and config.json
\* are there).
ExecutionBegins(p) ==
    /\ p \notin executing
    /\ folders[p].exists
    /\ "config.json" \in folders[p].files
    /\ executing' = executing \cup {p}
    /\ UNCHANGED <<folders, made, folder_response>>
    /\ UNCHANGED notFolderVars

\* project.py:490-492, 507-509, 524-526, 541-543: save_cell_result and the
\* three save_*_summary calls of a running execution: _load_results, or a
\* new ProjectResults when there is none, then _save_results
ExecutionSaves(p) ==
    /\ p \in executing
    /\ folders' = [folders EXCEPT ![p] = WriteJson(@, "results.json")]
    /\ UNCHANGED <<made, executing, folder_response>>
    /\ UNCHANGED notFolderVars

\* project.py:332-339 add_token_usage of a running execution: ValueError
\* when config.json cannot be loaded, else config.json is rewritten
ExecutionAddsTokens(p) ==
    /\ p \in executing
    /\ folders' = [folders EXCEPT ![p] =
          IF folders[p].exists /\ "config.json" \in folders[p].files
          THEN WriteJson(@, "config.json") ELSE @]
    /\ folder_response' = [op |-> "add_token_usage", name |-> p,
          code |-> IF folders[p].exists /\ "config.json" \in folders[p].files
                   THEN "saved" ELSE "ValueError"]
    /\ UNCHANGED <<made, executing>>
    /\ UNCHANGED notFolderVars

\* The execution ends (api.py:474-484).
ExecutionEnds(p) ==
    /\ p \in executing
    /\ executing' = executing \ {p}
    /\ UNCHANGED <<folders, made, folder_response>>
    /\ UNCHANGED notFolderVars

NextFolders ==
    \/ \E p \in Projects : CreateProject(p)
    \/ \E p \in Projects : DeleteProject(p)
    \/ \E p \in Projects : ClearChatHistory(p)
    \/ \E p \in Projects : ExecutionBegins(p)
    \/ \E p \in Projects : ExecutionSaves(p)
    \/ \E p \in Projects : ExecutionAddsTokens(p)
    \/ \E p \in Projects : ExecutionEnds(p)

SpecFolders == InitFolders /\ [][NextFolders]_vars

\* ------------------------- delete_column beside a running execution
\* One project: config.json's column list and results.json's cells and
\* column summaries; the worker thread of a background execute_all in
\* parallel mode (api.py:470-490) and a handler thread that serves one
\* delete_column request (api.py:433-441, which does not look at
\* active_executions).  Every save of the execution is _load_results, a
\* change of the loaded object, and _save_results (project.py:490-492,
\* 507-509, 524-526, 541-543); the two threads can interleave between the
\* load and the save.  The LLM responses carry no usage, so that the
\* execution does not rewrite config.json (executor.py:344, 751).

\* The documents of the root folder, in list_documents order.
RaceDocuments == <<<<"f">>, <<"f", ":", "c">>>>

\* The project's column list before the request and the execution.
RaceColumnLists == {s \in ColumnLists : Len(s) = RaceCols}

\* executor.py:186-201  one task for every document and column of the
\* config that execute_all loaded (executor.py:127)
CellTasks(cols) == {Key(f, c) : f \in Range(RaceDocuments), c \in Range(cols)}

\* executor.py:601-610  the summaries in the order _generate_summaries
\* awaits them: a row summary per document, a column summary per column
\* of the config that execute_all loaded, the overall summary
SummaryQueue(cols) ==
    [k \in 1..Len(RaceDocuments) |-> [kind |-> "row", key |-> RaceDocuments[k]]]
    \o [k \in 1..Len(cols) |-> [kind |-> "column", key |-> cols[k]]]
    \o <<[kind |-> "overall", key |-> <<>>]>>

\* project.py:491, 508, 525, 542  the change a save makes to the results
\* it loaded: results.cells[key] = result, results.column_summaries[
\* column_id] = result; row and overall summaries are other fields
Put(loaded_results, item) ==
    IF item.kind = "cell"
    THEN [loaded_results EXCEPT !.cells = @ \cup {item.key}]
    ELSE IF item.kind = "column"
         THEN [loaded_results EXCEPT !.column_summaries = @ \cup {item.key}]
         ELSE loaded_results

InitRace ==
    /\ ApiInit
    /\ ExecIdle
    /\ RowIdle
    /\ LLMIdle
    /\ CfgIdle
    /\ ColIdle
    /\ DocIdle
    /\ ChatIdle
    /\ CiteIdle
    /\ ExtractIdle
    /\ CellIdle
    /\ FolderIdle
    /\ race_columns \in RaceColumnLists
    /\ race_results = EmptyResults
    /\ execution = IdleExecution
    /\ deletion = IdleDeletion

\* executor.py:127, 186-201  execute_all loads the config once and makes
\* the tasks from its columns
ExecuteAllBegins ==
    /\ execution.pc = "idle"
    /\ execution' = [execution EXCEPT !.pc = "cells",
                                      !.columns = race_columns,
                                      !.pending = CellTasks(race_columns)]
    /\ UNCHANGED <<race_columns, race_results, deletion>>
    /\ UNCHANGED notRaceVars

\* executor.py:374-377, project.py:490  a task of the batch reaches
\* save_cell_result, which loads results.json
SaveCellResultLoads(k) ==
    /\ execution.pc = "cells"
    /\ execution.item = NoItem
    /\ k \in execution.pending
    /\ execution' = [execution EXCEPT !.pending = @ \ {k},
                                      !.item = [kind |-> "cell", key |-> k],
                                      !.local = race_results]
    /\ UNCHANGED <<race_columns, race_results, deletion>>
    /\ UNCHANGED notRaceVars

\* executor.py:601-610, 782, project.py:507, 524, 541  the next summary
\* is generated and its save loads results.json
SaveSummaryLoads ==
    /\ execution.pc = "summaries"
    /\ execution.item = NoItem
    /\ execution.queue # <<>>
    /\ execution' = [execution EXCEPT !.queue = Tail(@),
                                      !.item = Head(execution.queue),
                                      !.local = race_results]
    /\ UNCHANGED <<race_columns, race_results, deletion>>
    /\ UNCHANGED notRaceVars

\* project.py:491-492, 508-509, 525-526, 542-543  the loaded results are
\* changed and written; after the last cell the summaries follow
\* (executor.py:222), after the last summary the execution is over
SaveResults ==
    /\ execution.item # NoItem
    /\ race_results' = Put(execution.local, execution.item)
    /\ execution' =
         IF execution.pc = "cells" /\ execution.pending = {}
         THEN [execution EXCEPT !.item = NoItem, !.pc = "summaries",
                                !.queue = SummaryQueue(execution.columns)]
         ELSE IF execution.pc = "summaries" /\ execution.queue = <<>>
              THEN [execution EXCEPT !.item = NoItem, !.pc = "done"]
              ELSE [execution EXCEPT !.item = NoItem]
    /\ UNCHANGED <<race_columns, deletion>>
    /\ UNCHANGED notRaceVars

\* project.py:421-427  delete_column loads config.json, filters the
\* columns and saves it
DeleteColumnSavesConfig(column_id) ==
    /\ deletion.pc = "idle"
    /\ race_columns' = WithoutColumn(race_columns, column_id)
    /\ deletion' = [deletion EXCEPT !.pc = "config", !.column_id = column_id]
    /\ UNCHANGED <<race_results, execution>>
    /\ UNCHANGED notRaceVars

\* project.py:430  results = self._load_results(project_name)
DeleteColumnLoadsResults ==
    /\ deletion.pc = "config"
    /\ deletion' = [deletion EXCEPT !.pc = "loaded", !.local = race_results]
    /\ UNCHANGED <<race_columns, race_results, execution>>
    /\ UNCHANGED notRaceVars

\* project.py:431-439  the cells and the summary of the column are taken
\* out of the loaded results, which are saved
DeleteColumnSavesResults ==
    /\ deletion.pc = "loaded"
    /\ race_results' =
         [cells |-> CellsKept(deletion.local.cells, deletion.column_id),
          column_summaries |->
              deletion.local.column_summaries \ {deletion.column_id}]
    /\ deletion' = [deletion EXCEPT !.pc = "done"]
    /\ UNCHANGED <<race_columns, execution>>
    /\ UNCHANGED notRaceVars

NextRace ==
    \/ ExecuteAllBegins
    \/ \E k \in execution.pending : SaveCellResultLoads(k)
    \/ SaveSummaryLoads
    \/ SaveResults
    \/ \E column_id \in ColumnIds : DeleteColumnSavesConfig(column_id)
    \/ DeleteColumnLoadsResults
    \/ DeleteColumnSavesResults

SpecRace == InitRace /\ [][NextRace]_vars

\* ------------------------------------------------------ specifications
Init == ApiInit /\ ExecIdle /\ RowIdle /\ LLMIdle /\ CfgIdle /\ ColIdle /\ DocIdle /\ ChatIdle /\ CiteIdle /\ ExtractIdle /\ CellIdle /\ FolderIdle /\ RaceIdle

HandlerStep ==
    \/ \E h \in Handlers, kind \in Kinds, name \in Projects, ok \in BOOLEAN :
          ReqArrive(h, kind, name, ok)
    \/ \E h \in Handlers : ReqTest(h)
    \/ \E h \in Handlers : ReqInsert(h)
    \/ \E h \in Handlers : ReqSpawn(h)
    \/ \E h \in Handlers, name \in Projects : ReqStatus(h, name)

WorkerStep ==
    \/ \E w \in Workers, found \in BOOLEAN : CoroBegin(w, found)
    \/ \E w \in Workers : CoroPersist(w)
    \/ \E w \in Workers, o \in {"returned", "raised"} : CoroEnd(w, o)
    \/ \E w \in Workers : WorkerFinally(w)

Next == HandlerStep \/ WorkerStep

Spec == Init /\ [][Next]_vars

\* Threads are scheduled by the OS and execution_lock is held only for the
\* few statements of a with-block, so every thread step that stays or keeps
\* becoming possible is eventually taken; the coroutine is assumed to finish.
FairSpec ==
    /\ Spec
    /\ \A h \in Handlers :
          WF_vars(ReqTest(h)) /\ WF_vars(ReqInsert(h)) /\ WF_vars(ReqSpawn(h))
    /\ \A w \in Workers :
          /\ WF_vars(\E found \in BOOLEAN : CoroBegin(w, found))
          /\ WF_vars(\E o \in {"returned", "raised"} : CoroEnd(w, o))
          /\ SF_vars(WorkerFinally(w))

\* ------------------------------------------------------------ claims
WorkersOf(p) == {w \in Workers : worker[w].pc # "none" /\ w[1] = p}
PendingSpawnsOf(p) == {h \in Handlers : req[h].pc = "spawn" /\ req[h].name = p}

\* C1: at every moment at most one background worker exists for a project
\* name, counting the accepted requests whose thread is about to be started.
C1_AtMostOneWorkerPerProject ==
    \A p \in Projects :
        Cardinality(WorkersOf(p)) + Cardinality(PendingSpawnsOf(p)) <= 1

\* C1 witness: a second start request for a project was rejected while that
\* project's worker is alive.
C1_Witness ==
    \E p \in Projects :
        /\ WorkersOf(p) # {}
        /\ response = [name |-> p, code |-> "409"]

\* C2: a start request that finds its project in active_executions is
\* answered 409, starts no worker, and leaves active_executions and the
\* project files unchanged; no handler step of a start request writes files.
C2_ConflictAnswered409NothingChanged ==
    [][\A h \in Handlers :
          /\ (req[h].pc = "test" /\ req[h].name \in active_executions
                  /\ req'[h] # req[h])
              => /\ response' = [name |-> req[h].name, code |-> "409"]
                 /\ req'[h].pc = "idle"
                 /\ active_executions' = active_executions
                 /\ worker' = worker
                 /\ files' = files
          /\ (req'[h] # req[h]) => files' = files]_vars

\* C2 witness: a 409 was sent for a project that is still registered and whose
\* worker has persisted results.
C2_Witness ==
    /\ response.code = "409"
    /\ response.name \in active_executions
    /\ files[response.name].results = "written"

\* C3: every name added to active_executions is eventually removed.
C3_NameEventuallyRemoved ==
    \A p \in Projects : (p \in active_executions) ~> (p \notin active_executions)

\* C3 witness: a worker that persisted results has gone, its name is out of the set and
\* GET /status answered is_running = false for it.
C3_Witness ==
    \E p \in Projects :
        /\ files[p].results = "written"
        /\ p \notin active_executions
        /\ WorkersOf(p) = {}
        /\ response = [name |-> p, code |-> "not_running"]

\* C4: a start request whose project is not in active_executions is accepted
\* whatever else is running: the test passes, the name is inserted, a worker
\* is started and the answer is 200.
C4_AbsentNameAccepted ==
    [][\A h \in Handlers :
          /\ (req[h].pc = "test" /\ req[h].name \notin active_executions
                  /\ req'[h] # req[h])
              => req'[h].pc = "insert"
          /\ (req[h].pc = "insert" /\ req'[h] # req[h])
              => /\ req'[h].pc = "spawn"
                 /\ req[h].name \in active_executions'
          /\ (req[h].pc = "spawn" /\ req'[h] # req[h])
              => /\ response' = [name |-> req[h].name, code |-> "200"]
                 /\ \E w \in Workers :
                       /\ w[1] = req[h].name
                       /\ worker[w].pc = "none"
                       /\ worker'[w].pc = "run"]_vars

\* C4 witness: workers of two different projects are running their
\* coroutines at the same time.
C4_Witness ==
    \E v, w \in Workers :
        /\ worker[v].pc = "work"
        /\ worker[w].pc = "work"
        /\ v[1] # w[1]

\* ------------------------------------------------- claims on the executor

ExecuteAllReturned == call.op = "all" /\ pc = "returned"

\* C5: when execute_all completes, the results hold a Cell Result with status
\* completed or error under every document x column key, in both modes,
\* whichever LLM calls or extractions failed.
C5_EveryCellHasResult ==
    ExecuteAllReturned =>
        \A d \in Docs : \A c \in Cols :
            results.cells[<<d, c>>] \in {"completed", "error"}

\* C6: when execute_all returns, completed_cells equals total_cells = D*C in
\* both modes, whichever LLM calls, parsing steps or saves failed and at
\* whichever column of a document a row-wise failure occurred.
C6_CompletedEqualsTotal ==
    ExecuteAllReturned =>
        /\ progress.total_cells = NumDocs * call.ncols
        /\ progress.completed_cells = progress.total_cells

SummaryStep ==
    \/ results'.row_summaries # results.row_summaries
    \/ results'.column_summaries # results.column_summaries
    \/ results'.overall_summary # results.overall_summary

\* C7: no row, column or overall summary step of a call runs while a cell
\* task dispatched by the same execute_all, execute_row or execute_column
\* call is still in flight.
C7_SummariesAfterAllTasks ==
    [][SummaryStep => tasks = {}]_vars

\* A summary has been produced by a call that dispatched cell tasks, one of
\* which failed: the last column of a parallel execute_all that crossed a
\* batch boundary, or the column summary of execute_column.
C7_Witness ==
    /\ fault.kind \in {"llm", "save", "extract"}
    /\ \/ /\ call.op = "all" /\ call.mode = "parallel"
          /\ progress.completed_cells > BATCH_SIZE
          /\ results.column_summaries[call.ncols] # "none"
       \/ /\ call.op = "column"
          /\ fault.col = call.col
          /\ results.column_summaries[call.col] # "none"

ParallelExecuteAll == call.op = "all" /\ call.mode = "parallel"

\* C8: during parallel-mode execute_all at most BATCH_SIZE single-cell tasks
\* are in flight at any moment, and no cell of the next batch starts before
\* every cell of the batch before it has finished.
C8_BatchesBoundedAndSequential ==
    [][ParallelExecuteAll =>
          /\ Cardinality(tasks') <= BATCH_SIZE
          /\ (tasks' \ tasks # {} => tasks = {})]_vars

\* The second batch is in flight after a full first batch.
C8_Witness ==
    /\ ParallelExecuteAll
    /\ pc = "consume"
    /\ i = BATCH_SIZE
    /\ tasks # {}
    /\ progress.completed_cells >= BATCH_SIZE

ExecuteRowEnded == call.op = "row" /\ pc \in {"returned", "raised"}

\* C9: in parallel mode execute_row returns a map keyed by exactly the
\* project's column ids, each entry being the result of that column's own
\* task or an error result if the task raised; a failing column does not
\* abort the row.
C9_RowMapKeyedByColumns ==
    (ExecuteRowEnded /\ call.mode = "parallel") =>
        /\ pc = "returned"
        /\ DOMAIN ret = Cols
        /\ \A c \in Cols :
              ret[c] = IF TaskOutcome(call.doc, c) = "raised" THEN "error"
                       ELSE TaskOutcome(call.doc, c)

\* C10: execute_row always finishes with a row-summary pass for the
\* document, in both modes, whatever the outcome of the extraction, the cell
\* tasks or the row-wise LLM call.
C10_RowSummaryAlwaysGenerated ==
    ExecuteRowEnded => results.row_summaries[call.doc] # "none"

\* ------------------------------------------- claims on the row-wise path

RowWiseEnded == rw_pc \in {"returned", "raised"}

\* The reply answers some of the ids, each with a text (none with null).
AnswersForSubset ==
    /\ reply.shape = "answers"
    /\ \A q \in DOMAIN reply.answers : reply.answers[q] # "null"

C15_RowWiseEntryForEveryId ==
    rw_pc \notin {"idle", "call"} =>
        /\ ~RowWiseRaises(reply)
        /\ DOMAIN responses = Questions
        /\ \A q \in Questions :
              responses[q] =
                 IF reply.shape \in {"answers", "no_answers_key"}
                 THEN IF q \in DOMAIN reply.answers
                      THEN AnswerText(reply.answers[q], q)
                      ELSE NoAnswerProvided
                 ELSE RawReply

\* ------------------------------------------------- claims on complete()

Retryable(o) ==
    o.kind = "RequestError" \/ o.status = 429 \/ o.status >= 500

\* C12: if each of retry_count consecutive attempts ends in a retryable
\* failure (429, 5xx or network error, in any mix), complete() issues exactly
\* retry_count POSTs, terminates, and fails with an error that wraps the
\* last underlying error.
C12_ExhaustedWrapsLastError ==
    (/\ llm_pc = "raised"
     /\ retry_count > 0
     /\ Len(history) = retry_count
     /\ \A k \in 1..Len(history) : Retryable(history[k])) =>
        /\ posts = retry_count
        /\ llm_error.kind = "Exception"
        /\ llm_error.wraps = ErrorOf(history[retry_count], retry_count - 1)

\* C13: a 4xx status other than 429 propagates immediately: no backoff sleep
\* and no further POST, whatever the remaining retry budget; once the call
\* has ended nothing more is posted or waited for.
C13_Fatal4xxPropagatesAtOnce ==
    [][/\ (/\ Len(history') > Len(history)
           /\ history'[Len(history')].status \in 400..499
           /\ history'[Len(history')].status # 429) =>
              /\ llm_pc' = "raised"
              /\ llm_error'.kind = "HTTPStatusError"
              /\ llm_error'.wraps.status = history'[Len(history')].status
              /\ sleeps' = sleeps
       /\ llm_pc \in {"raised", "returned"} =>
              /\ posts' = posts
              /\ sleeps' = sleeps]_vars

\* A 404 on the second of three allowed attempts, after a retried failure.
C13_Witness ==
    /\ llm_pc = "raised"
    /\ retry_count = MaxRetries
    /\ posts = 2
    /\ Len(sleeps) = 1
    /\ history[2] = [kind |-> "response", status |-> 404]

RECURSIVE TwoToThe(_)
TwoToThe(a) == IF a = 0 THEN 1 ELSE 2 * TwoToThe(a - 1)

\* C14: after a retryable failure on attempt a (0-based) the wait before the
\* next attempt is retry_delay * 2^a, for 429, 5xx and network errors alike;
\* a successful response returns at once with no further wait or POST.
C14_ExponentialBackoff ==
    /\ posts = Len(history)
    /\ Len(sleeps) = Cardinality({k \in 1..Len(history) : Retryable(history[k])})
    /\ \A k \in 1..Len(sleeps) :
          /\ Retryable(history[k])
          /\ sleeps[k] = retry_delay * TwoToThe(k - 1)
    /\ \A k \in 1..Len(history) :
          history[k].status \in 200..299 =>
             /\ k = Len(history)
             /\ llm_pc = "returned"
             /\ Len(sleeps) = k - 1

\* Success on the last allowed attempt after a 429, a 5xx or a network
\* error on each attempt before it: the waits are d, 2d, ... .
C14_Witness ==
    /\ llm_pc = "returned"
    /\ retry_count = MaxRetries
    /\ posts = MaxRetries
    /\ retry_delay = MaxDelay
    /\ history[1].status = 429
    /\ history[2].kind = "RequestError"

\* --------------------------------------------- claims on the token totals

\* C16: the persisted total_input_tokens and total_output_tokens never
\* decrease, under any interleaving of add_token_usage calls of a background
\* execution with a concurrent chat, update_project or column operation.
C16_TokenTotalsNeverDecrease ==
    [][/\ config_json'.total_input_tokens >= config_json.total_input_tokens
       /\ config_json'.total_output_tokens >= config_json.total_output_tokens]_vars

\* C17: after every successful LLM call made for the project (cell, row-wise
\* analysis, summaries, chat) the token totals have been increased by the
\* call's prompt_tokens and completion_tokens.
C17_EverySuccessfulCallAccrued ==
    (\A t \in Threads : thread[t].pc = "idle") =>
        /\ config_json.total_input_tokens = billed.prompt_tokens
        /\ config_json.total_output_tokens = billed.completion_tokens

\* --------------------------------------- claims on the column operations

\* C18: delete_column removes the column, every cell whose key ends with
\* ':<deleted column id>' and the column's entry in column_summaries, and
\* leaves the cells of all other columns, all row summaries, the overall
\* summary and the other columns (and their order) unchanged.
C18_DeleteColumnFrame ==
    [][(pm_call.op = "delete_column" /\ pm_pc = "call" /\ pm_pc' = "returned") =>
          /\ columns' = SelectSeq(columns, LAMBDA c : c # pm_call.column_id)
          /\ \A f \in Filenames : \A c \in ColumnIds :
                Key(f, c) \in cell_keys' <=>
                    (Key(f, c) \in cell_keys /\ c # pm_call.column_id)
          /\ cell_keys' \subseteq cell_keys
          /\ column_summaries' = column_summaries \ {pm_call.column_id}
          /\ row_summaries' = row_summaries
          /\ overall_summary' = overall_summary]_vars

\* Column "d" was deleted from a project that keeps column "cd", whose id
\* ends with "d", with cells and a summary, and whose row summaries stay.
C18_Witness ==
    /\ pm_pc = "returned"
    /\ pm_call.op = "delete_column"
    /\ pm_call.column_id = <<"d">>
    /\ <<"d">> \notin Range(columns)
    /\ <<"c", "d">> \in Range(columns)
    /\ Key(<<"f">>, <<"c", "d">>) \in cell_keys
    /\ <<"c", "d">> \in column_summaries
    /\ row_summaries = Filenames

\* C19: reorder_columns returns and persists the supplied existing ids
\* first, in the given order (unknown ids ignored), followed by every
\* existing column not mentioned, in their prior relative order.
C19_ReorderSuppliedThenRest ==
    [][(pm_call.op = "reorder_columns" /\ pm_pc = "call" /\ pm_pc' = "returned") =>
          /\ columns' =
                SelectSeq(pm_call.column_ids, LAMBDA c : c \in Range(columns))
                \o SelectSeq(columns, LAMBDA c : c \notin Range(pm_call.column_ids))
          /\ pm_ret' = columns'
          /\ UNCHANGED <<cell_keys, column_summaries, row_summaries, overall_summary>>]_vars

\* The example: three columns reordered with the list [C, unknown, A] give
\* [C, A, B].
C19_Witness ==
    /\ pm_pc = "returned"
    /\ pm_call.op = "reorder_columns"
    /\ pm_call.column_ids = <<<<"c", "d">>, UnknownId, <<"c">>>>
    /\ pm_ret = <<<<"c", "d">>, <<"c">>, <<"d">>>>
    /\ columns = pm_ret

\* ---------------------------------------------------------------- C20
\* The extensions the claim is about: the supported ones.
Supported(filename) == Lower(Suffix(filename)) \in Extractors

\* The three conditions of the claim, on the state the call started in:
\* force_refresh is false, a readable cache entry exists, and the mtime
\* stored in it is the file's mtime.
CacheHitConditions(c) ==
    /\ ~c.force_refresh
    /\ c.cache.state = "json"
    /\ c.cache.body[2] = c.file.mtime

RecordReturned(r) == r.kind \in {"cached", "extracted"}

\* C20: a get_document_text call on an existing document of a supported
\* type returns the cached record, without extracting and without writing
\* the cache, if and only if force_refresh is false, a readable cache entry
\* exists and its stored mtime equals the file's current mtime; in every
\* other case a call whose extraction and cache write succeed extracts
\* once, returns a record stamped with the file's mtime and leaves exactly
\* that record in the cache. So a call that follows a returned record on an
\* unmodified file with an untouched cache entry is a cache hit with the
\* same record, and a call that finds an mtime other than the stored one
\* is not a cache hit.
C20_CacheHitIffFreshUnforced ==
    [][ LET c == dp_call'
            r == dp_ret'
        IN  /\ (r # dp_ret /\ c.file.exists /\ Supported(c.filename)) =>
                  /\ (r.kind = "cached") <=> CacheHitConditions(c)
                  /\ r.kind = "cached" =>
                        /\ r.record = Loads(c.cache.body)
                        /\ extractions' = extractions
                        /\ cache_file' = cache_file
                  /\ (~CacheHitConditions(c)
                        /\ r.kind \notin {"ExtractorError", "OSError"}) =>
                        /\ r.kind = "extracted"
                        /\ extractions' = extractions + 1
                        /\ r.record.mtime = c.file.mtime
                        /\ r.record.filename = c.filename
                        /\ cache_file'.state = "json"
                        /\ Loads(cache_file'.body) = r.record
            /\ (c.n # dp_call.n /\ RecordReturned(dp_ret)
                  /\ dp_ret.n = dp_call.n
                  /\ doc_file = dp_call.file
                  /\ cache_file = [state |-> "json",
                                   body |-> Dumps(dp_ret.record)]
                  /\ ~c.force_refresh) =>
                  /\ r.n = c.n
                  /\ r.kind = "cached"
                  /\ r.record = dp_ret.record
                  /\ extractions' = extractions
            /\ (c.n # dp_call.n /\ RecordReturned(dp_ret)
                  /\ doc_file.exists
                  /\ doc_file.mtime # dp_ret.record.mtime) =>
                  /\ dp_pc' = "extract"
                  /\ r = dp_ret
      ]_vars

\* A cache hit on "b.PDF" that follows two extractions: the first call
\* extracted, the file's mtime changed, the next call extracted again, and
\* the call after it returned the record of the second extraction.
C20_Witness ==
    /\ doc_name = "b.PDF"
    /\ dp_ret.kind = "cached"
    /\ dp_ret.n = 3
    /\ extractions = 2
    /\ ~dp_call.force_refresh
    /\ dp_ret.record.mtime = 2
    /\ dp_ret.record = Loads(cache_file.body)

\* ---------------------------------------------------------------- C21
\* The LLM call of thread t is made in this step.
CallsLLM(t) == chat[t].pc = "llm" /\ chat'[t].pc # "llm"

\* The last ten of the messages, written without the slice.
LastTenOf(stored) ==
    [k \in 1..Min(Len(stored), 10) |->
        stored[Len(stored) - Min(Len(stored), 10) + k]]

\* C21: when chat_query calls the LLM it has already written the user
\* message to chat.json, and has written nothing else; the turns it sends
\* are the last 10 of the messages that were stored when it read the
\* history, followed by the new user message, once. It writes the
\* assistant message only in a step that follows a successful LLM call and
\* citation parsing, after the user message, with the parsed text.
C21_UserSavedBeforeLLMAssistantAfter ==
    [][ \A t \in ChatThreads :
          /\ CallsLLM(t) =>
                /\ wrote[t] = <<"user">>
                /\ Len(sent'[t]) = Len(LastTenOf(chat[t].stored)) + 1
                /\ SubSeq(sent'[t], 1, Len(sent'[t]) - 1)
                      = LastTenOf(chat[t].stored)
                /\ sent'[t][Len(sent'[t])] = Message("user", chat[t].message)
          /\ (chat[t].pc = "idle" /\ chat'[t].pc = "save_user") =>
                chat'[t].stored = chat_json
          /\ wrote'[t] # wrote[t] /\ wrote'[t][Len(wrote'[t])] = "assistant" =>
                /\ wrote'[t] = <<"user", "assistant">>
                /\ sent[t] # <<>>
                /\ chat[t].parsed = Reply(t)
                /\ chat_json'[Len(chat_json')]
                      = Message("assistant", chat[t].parsed)
          /\ chat'[t].pc = "raised" => wrote'[t] \in {<<>>, <<"user">>}
      ]_vars

\* A thread that read a history of 11 messages, so that the slice dropped
\* the oldest, typed the text stored as message 1, sent eleven turns and
\* has written both of its messages.
C21_Witness ==
    \E t \in ChatThreads :
        /\ chat[t].pc = "returned"
        /\ Len(chat[t].stored) = 11
        /\ chat[t].message = 1
        /\ Len(sent[t]) = 11
        /\ sent[t][1].content = 2
        /\ wrote[t] = <<"user", "assistant">>

AllSucceeded(task) ==
    /\ task.extraction = "ok"
    /\ task.llm.kind = "response"
    /\ task.llm.usage => task.accrued
    /\ task.llm.content # NullContent

\* C24: a _process_cell task that has ended has returned (it raised
\* nothing) and has saved exactly one Cell Result for its cell: completed
\* with the parsed answer when extraction, LLM call, accrual and parsing
\* all succeeded, otherwise error with an empty answer and a message; a
\* task that has not ended has saved nothing.
C24_OneResultOnEveryOutcome ==
    \A cell \in DOMAIN cell_task :
        LET task == cell_task[cell]
        IN  /\ task.pc # "returned" => save_count[cell] = 0
            /\ task.pc = "returned" =>
                  /\ save_count[cell] = 1
                  /\ results_json[Key(cell[1], cell[2])] = task.result
                  /\ IF AllSucceeded(task)
                     THEN /\ task.result.status = "completed"
                          /\ task.result.answer = ParsedText(task.llm.content)
                          /\ task.result.error = "None"
                     ELSE /\ task.result.status = "error"
                          /\ task.result.answer = NoAnswer
                          /\ task.result.error \notin {"None", ""}

\* A batch of three ended tasks: one completed with a cited answer, one
\* failed at the extraction, one at the token accrual.
C24_Witness ==
    /\ \A cell \in DOMAIN cell_task : cell_task[cell].pc = "returned"
    /\ \E cell \in DOMAIN cell_task :
          cell_task[cell].result = CompletedResult(<<"numbered", 1>>)
    /\ \E cell \in DOMAIN cell_task :
          cell_task[cell].result = ErrorResult("Document not found")
    /\ \E cell \in DOMAIN cell_task :
          cell_task[cell].result = ErrorResult("Project not found")

\* ---------------------------------------------------------------- C25
\* The result a task saved is no longer what results.json holds for its
\* cell.
LostUpdate ==
    \E cell \in DOMAIN cell_task :
        /\ cell_task[cell].pc = "returned"
        /\ results_json[Key(cell[1], cell[2])] # cell_task[cell].result

\* C25 as stated: among the tasks of one batch a save_cell_result write
\* discards the result another task of the batch saved.
C25_LostUpdateInBatch == <>LostUpdate

\* C25, corrected: the tasks of one batch never lose each other's results:
\* results.json holds, for every task of the batch that has ended, the
\* result that task saved, and for every other key what it held before.
C25_NoLostUpdateInBatch ==
    /\ ~LostUpdate
    /\ \A f \in Filenames : \A c \in ColumnIds :
          (<<f, c>> \notin DOMAIN cell_task
              \/ cell_task[<<f, c>>].pc # "returned") =>
             results_json[Key(f, c)] \in {NoCellResult, OldResult}

\* Three tasks of one batch have ended one after the other and results.json
\* holds the three results, of which two differ.
C25_Witness ==
    /\ Cardinality(DOMAIN cell_task) = 3
    /\ \A cell \in DOMAIN cell_task : save_count[cell] = 1
    /\ \A cell \in DOMAIN cell_task :
          /\ cell_task[cell].pc = "returned"
          /\ results_json[Key(cell[1], cell[2])] = cell_task[cell].result
    /\ \E a, b \in DOMAIN cell_task :
          cell_task[a].result.status # cell_task[b].result.status

\* ---------------------------------------------------------------- C26
RowSummaryStep(d) == results'.row_summaries[d] # results.row_summaries[d]
ColumnSummaryStep(c) == results'.column_summaries[c] # results.column_summaries[c]
OverallSummaryStep == results'.overall_summary # results.overall_summary

SummariesWritten(res) ==
    Cardinality({d \in Docs : res.row_summaries[d] # "none"})
        + Cardinality({c \in AllCols : res.column_summaries[c] # "none"})
        + (IF res.overall_summary # "none" THEN 1 ELSE 0)

\* C26: the summary pass of execute_all saves one summary per step: the
\* row summary of document d when exactly the documents before d have
\* theirs and no column or overall summary exists; the column summary of
\* column c when every document has its row summary, exactly the columns
\* before c have theirs and no overall summary exists; the overall
\* summary when every document and every column has its summary.
C26_RowsThenColumnsThenOverall ==
    [][call.op = "all" =>
          /\ SummaryStep => SummariesWritten(results') = SummariesWritten(results) + 1
          /\ \A d \in Docs : RowSummaryStep(d) =>
                /\ \A x \in Docs : results.row_summaries[x] # "none" <=> x < d
                /\ \A c \in AllCols : results.column_summaries[c] = "none"
                /\ results.overall_summary = "none"
          /\ \A c \in AllCols : ColumnSummaryStep(c) =>
                /\ c \in Cols
                /\ \A d \in Docs : results.row_summaries[d] # "none"
                /\ \A x \in AllCols : results.column_summaries[x] # "none" <=> x < c
                /\ results.overall_summary = "none"
          /\ OverallSummaryStep =>
                /\ \A d \in Docs : results.row_summaries[d] # "none"
                /\ \A c \in Cols : results.column_summaries[c] # "none"
                /\ tasks = {}]_vars

\* execute_all has returned with the overall summary, after the row
\* summaries of all documents and the column summaries of four columns,
\* one of which is an error result.
C26_Witness ==
    /\ ExecuteAllReturned
    /\ call.ncols = MaxCols
    /\ results.overall_summary = "completed"
    /\ \A d \in Docs : results.row_summaries[d] # "none"
    /\ \A c \in Cols : results.column_summaries[c] # "none"
    /\ \E d \in Docs : results.row_summaries[d] = "error"

\* ---------------------------------------------------------------- C27
\* C27: a project folder exists only if create_project made it and
\* delete_project has not removed it since, whatever clear_chat_history
\* calls and whatever saves and token updates of running executions took
\* place; so create_project is answered "already exists" only for such a
\* project.
C27_FolderOnlyThroughCreate ==
    /\ \A p \in Projects : folders[p].exists => made[p]
    /\ folder_response.code = "400 already exists" =>
          made[folder_response.name]

\* ---------------------------------------------------------------- C28
\* C28: once a delete_column request and a background execution of the
\* same project have both finished, in whatever way their steps were
\* interleaved, every cell key and every column_summaries key of
\* results.json belongs to a column of the project's column list.
C28_NoResultsOfDeletedColumn ==
    (execution.pc = "done" /\ deletion.pc = "done") =>
        /\ \A k \in race_results.cells :
              \E f \in Range(RaceDocuments), c \in Range(race_columns) :
                  k = Key(f, c)
        /\ race_results.column_summaries \subseteq Range(race_columns)

\* ---------------------------------------------------------------- C29
\* The number of places of the list s that hold x.
Occurrences(s, x) == Cardinality({k \in 1..Len(s) : s[k] = x})

\* C29: whatever column_ids is given (partial, with unknown ids, with an
\* id repeated), reorder_columns leaves the column list a permutation of
\* the list before the call: every column is there exactly as often as
\* before, so none is dropped or duplicated and the ids stay distinct.
C29_ReorderKeepsPermutation ==
    [][(pm_pc = "call" /\ pm_pc' = "returned"
            /\ pm_call.op = "reorder_columns") =>
          /\ Len(columns') = Len(columns)
          /\ \A c \in RequestIds :
                Occurrences(columns', c) = Occurrences(columns, c)]_vars

\* ---------------------------------------------------------------- C30
\* C30: during execute_all every progress value handed to the callback
\* has completed_cells at least as large as the value before and at most
\* total_cells, so that progress_pct lies in 0..100; the phase
\* "completed" is reported once, as the last value, after the summaries.
C30_ProgressWithinTotal ==
    [][(call.op = "all" /\ progress' # progress) =>
          /\ progress'.completed_cells >= progress.completed_cells
          /\ progress'.completed_cells <= progress'.total_cells
          /\ ProgressPct(progress') \in 0..100
          /\ progress.current_phase # "completed"
          /\ progress'.current_phase = "completed" =>
                /\ pc = "summ_overall"
                /\ pc' = "returned"]_vars

====
